---- MODULE Spec2Model ----
(***************************************************************************)
(* hypr-notch: the module registry (src/module/registry.rs), the layout    *)
(* engine (src/layout.rs) and the application handlers that drive them     *)
(* (src/app.rs, src/pointer.rs, src/wayland.rs, src/main.rs).              *)
(*                                                                         *)
(* and the canvas (src/draw.rs).                                           *)
(*                                                                         *)
(* Ten specifications over the same variables:                             *)
(*   Spec     the registry's public API called in any order                *)
(*            (add_module, load_modules_from_config, calculate_layout,     *)
(*            draw, handle_event);                                         *)
(*   SpecApp  the application: AppData::new followed by the event loop's   *)
(*            handlers (configure, closed, pointer frames, frame callback, *)
(*            timer, config reload) and the passing of time;               *)
(*   SpecLayout  registries of any modules, laid out, then events and      *)
(*            draws dispatched to them;                                    *)
(*   SpecRows  the layout engine alone,      over rows of several modules  *)
(*            per bucket and several rows;                                 *)
(*   SpecCanvas  fill_rect and the background fill on a fresh canvas;      *)
(*   SpecText  draw_text on a canvas of one colour;                        *)
(*   SpecClock  the clock drawn into an area of a canvas;                  *)
(*   SpecNotch  SpecApp over the configurations of one notch;              *)
(*   SpecResize  SpecNotch and AppData::resize called on its own;          *)
(*   SpecHover  the pointer entering and leaving one notch, under a timer  *)
(*            that keeps firing.                                           *)
(***************************************************************************)
EXTENDS Integers, Sequences, FiniteSets, TLC

VARIABLES
    \* ModuleRegistry (registry.rs:18-22)
    modules, module_areas, external_libs,
    \* AppData (app.rs:26-44)
    config, width, height, configured, expanded, layer_surface,
    buffer_drawn, last_draw,
    \* what the last operation did: the operation and its result, and the
    \* calls it made on modules, libraries and the surface, in order
    op, init_calls, draw_calls, event_calls, lib_calls, area_uses, frames,
    \* the modules and library handles the last operation disposed of, in order
    disposals,
    \* Canvas (draw.rs:114-118) and the bytes the last operation wrote to it
    canvas, writes,
    \* the time since the last draw that was carried out, up to the interval
    since_performed,
    \* the glyphs the last operation went through, in order, each with the
    \* cursor before and after it
    glyphs,
    \* the layout passes the last operation ran and the requests it made of
    \* the layer surface other than a frame, in order
    requests

vars == <<modules, module_areas, external_libs, config, width, height,
          configured, expanded, layer_surface, buffer_drawn, last_draw,
          op, init_calls, draw_calls, event_calls, lib_calls, area_uses,
          frames, disposals, canvas, writes, since_performed,
          glyphs, requests>>

-----------------------------------------------------------------------------
(* Bounds of the model *)

\* most modules the registry holds (add_module and plugin loads stop there)
MaxModules == 2
\* most library handles the registry retains (they are never released)
MaxLibs == 2
\* most pointer events in one pointer frame
MaxFrameEvents == 1
\* the passing of time, in milliseconds per Tick
TickMs == 8

-----------------------------------------------------------------------------
(* Option<T>, HashMap<K,V> *)

None == <<>>
Some(x) == <<x>>
IsSome(o) == o # <<>>
UnwrapOr(o, d) == IF o = <<>> THEN d ELSE o[1]
\* Option::or
OrElse(o, p) == IF o = <<>> THEN p ELSE o

EmptyMap == [k \in {} |-> k]
ContainsKey(map, k) == k \in DOMAIN map
Insert(map, k, v) == [x \in (DOMAIN map) \cup {k} |-> IF x = k THEN v ELSE map[x]]

Range(seq) == {seq[i] : i \in 1..Len(seq)}
Min2(a, b) == IF a < b THEN a ELSE b
Max2(a, b) == IF a >= b THEN a ELSE b

\* Rust's integer division truncates toward zero
TruncDiv(a, b) == IF a >= 0 THEN a \div b ELSE -((-a) \div b)
\* `u32 as i32`: the value itself below 2^31, which every size of this
\* model is (the checker's integers end there)
AsI32(n) == n

-----------------------------------------------------------------------------
(* Modules: the built-in clock and the plugins the environment offers *)

Rect(x, y, w, h) == [x |-> x, y |-> y, width |-> w, height |-> h]

\* the shared objects on disk: what Library::new and lib.get("create_module")
\* answer for each path, and the module each constructor returns
LibraryNew(path) == path \in {"pa", "nosym"}
LibraryGetCreateModule(path) == path = "pa"
PluginId(path) == "weather"
\* what the plugin's preferred_size returns
PluginSize(path) == <<60, 20>>

\* a module instance: its id, the library its code lives in, its preferred
\* size, the configuration it holds, and whether init has been called on it
ClockModule_new ==
    [id |-> "clock", lib |-> "builtin", size |-> <<100, 30>>, cfg |-> "default",
     init_called |-> FALSE]
create_module(path) ==
    [id |-> PluginId(path), lib |-> path, size |-> PluginSize(path), cfg |-> "default",
     init_called |-> FALSE]
\* a module of some other implementation: what its id() and its
\* preferred_size() return is up to it
PluginModule(id, size) ==
    [id |-> id, lib |-> "plugin", size |-> size, cfg |-> "default", init_called |-> FALSE]

\* Module::init: [ok, module]. The clock reads the keys it knows and always
\* succeeds; the plugin rejects the table "tErr".
module_init(m, table) ==
    IF m.lib = "builtin"
    THEN [ok |-> TRUE, module |-> [m EXCEPT !.cfg = table, !.init_called = TRUE]]
    ELSE IF table = "tErr"
    THEN [ok |-> FALSE, module |-> [m EXCEPT !.init_called = TRUE]]
    ELSE [ok |-> TRUE, module |-> [m EXCEPT !.cfg = table, !.init_called = TRUE]]

\* Module::draw: the clock always returns Ok; whether the plugin's draw
\* succeeds is the plugin's business (plugin_draw_ok)
module_draw(m, area, plugin_draw_ok) == m.lib = "builtin" \/ plugin_draw_ok

\* Module::handle_event: the clock consumes Update and UpdateExpanded, the
\* plugin consumes presses
module_handle_event(m, event, area) ==
    IF m.lib = "builtin" THEN event.kind \in {"Update", "UpdateExpanded"}
    ELSE event.kind = "Press"

\* Module::preferred_size
preferred_size(m) == m.size

-----------------------------------------------------------------------------
(* NotchConfig *)

\* NotchConfig::style_for
style_for(c, exp) ==
    LET section  == IF exp THEN c.expanded ELSE c.collapsed
        fallback == c.main
    IN  [width  |-> UnwrapOr(OrElse(section.width, fallback.width), 300),
         height |-> UnwrapOr(OrElse(section.height, fallback.height), 40)]

\* ModuleStateConfig::default()
ModuleStateConfig_default == [visible |-> None, alignment |-> None]

-----------------------------------------------------------------------------
(* Layout engine *)

\* a search that returns the last module of that id
FindModule_last(mods, id) ==
    LET hits == {i \in 1..Len(mods) : mods[i].id = id}
    IN  IF hits = {} THEN None
        ELSE Some(mods[CHOOSE i \in hits : \A j \in hits : i >= j])

\* modules.iter().find(|m| m.id() == id)
FindModule(mods, id) ==
    LET hits == {i \in 1..Len(mods) : mods[i].id = id}
    IN  IF hits = {} THEN None
        ELSE Some(mods[CHOOSE i \in hits : \A j \in hits : i <= j])

\* the per-module state configuration of `id` for the expansion state
StateCfg(c, id, exp) ==
    IF ContainsKey(c.modules.state, id)
    THEN IF exp THEN c.modules.state[id].expanded ELSE c.modules.state[id].collapsed
    ELSE ModuleStateConfig_default

\* a bucketing that does not look at the visibility
BucketOf_ignore_visible(c, mods, id, exp) ==
    LET alignment == UnwrapOr(StateCfg(c, id, exp).alignment, "center")
    IN  IF ~IsSome(FindModule(mods, id)) THEN "none"
        ELSE IF alignment = "left" THEN "left"
        ELSE IF alignment = "right" THEN "right"
        ELSE "center"

\* the bucket a visible, loaded row entry falls into ("none": it is skipped)
BucketOf(c, mods, id, exp) ==
    LET state_cfg == StateCfg(c, id, exp)
        visible   == UnwrapOr(state_cfg.visible, TRUE)
        alignment == UnwrapOr(state_cfg.alignment, "center")
    IN  IF ~visible THEN "none"
        ELSE IF ~IsSome(FindModule(mods, id)) THEN "none"
        ELSE IF alignment = "left" THEN "left"
        ELSE IF alignment = "right" THEN "right"
        ELSE "center"

\* left_modules / center_modules / right_modules of a row, in row order
RECURSIVE Bucket(_, _, _, _, _, _)
Bucket(c, mods, ids, exp, which, i) ==
    IF i > Len(ids) THEN <<>>
    ELSE LET rest == Bucket(c, mods, ids, exp, which, i + 1)
         IN  IF BucketOf(c, mods, ids[i], exp) = which
             THEN <<FindModule(mods, ids[i])[1]>> \o rest
             ELSE rest

\* a placement from left to right without the gap of 8
RECURSIVE PlaceLeftToRight_no_gap(_, _, _, _, _)
PlaceLeftToRight_no_gap(ms, i, x_offset, y_offset, areas) ==
    IF i > Len(ms) THEN areas
    ELSE LET w == preferred_size(ms[i])[1]
             h == preferred_size(ms[i])[2]
         IN  PlaceLeftToRight_no_gap(ms, i + 1, x_offset + AsI32(w), y_offset,
                                     Insert(areas, ms[i].id, Rect(x_offset, y_offset, w, h)))

\* place ms[i..] from left to right starting at x_offset, 8 apart
RECURSIVE PlaceLeftToRight(_, _, _, _, _)
PlaceLeftToRight(ms, i, x_offset, y_offset, areas) ==
    IF i > Len(ms) THEN areas
    ELSE LET w == preferred_size(ms[i])[1]
             h == preferred_size(ms[i])[2]
         IN  PlaceLeftToRight(ms, i + 1, x_offset + AsI32(w) + 8, y_offset,
                              Insert(areas, ms[i].id, Rect(x_offset, y_offset, w, h)))

\* place ms[i], ms[i-1], .. from right to left ending at x_offset, 8 apart
RECURSIVE PlaceRightToLeft(_, _, _, _, _)
PlaceRightToLeft(ms, i, x_offset, y_offset, areas) ==
    IF i < 1 THEN areas
    ELSE LET w == preferred_size(ms[i])[1]
             h == preferred_size(ms[i])[2]
             x == x_offset - AsI32(w)
         IN  PlaceRightToLeft(ms, i - 1, x - 8, y_offset,
                              Insert(areas, ms[i].id, Rect(x, y_offset, w, h)))

RECURSIVE SumWidths(_, _)
SumWidths(ms, i) ==
    IF i > Len(ms) THEN 0 ELSE preferred_size(ms[i])[1] + SumWidths(ms, i + 1)

\* a row height taken from the first module of the row alone
MaxHeight_first(ms, i) ==
    IF i > Len(ms) THEN 0 ELSE preferred_size(ms[i])[2]

RECURSIVE MaxHeight(_, _)
MaxHeight(ms, i) ==
    IF i > Len(ms) THEN 0 ELSE Max2(preferred_size(ms[i])[2], MaxHeight(ms, i + 1))

\* a centre bucket that starts at half the free width, negative or not
CenterStart_no_clamp(total_width, center_row_width) ==
    TruncDiv(total_width - AsI32(center_row_width), 2)

\* ((total_width - center_row_width as i32) / 2).max(0)
CenterStart(total_width, center_row_width) ==
    Max2(TruncDiv(total_width - AsI32(center_row_width), 2), 0)

\* one iteration of `for row in &layout_state.rows`: [areas, y_offset]
LayoutRow(c, mods, exp, row, acc) ==
    LET total_width    == AsI32(style_for(c, exp).width)
        row_spacing    == UnwrapOr((IF exp THEN c.layout.expanded
                                    ELSE c.layout.collapsed).row_spacing, 8)
        left_modules   == Bucket(c, mods, row.modules, exp, "left", 1)
        center_modules == Bucket(c, mods, row.modules, exp, "center", 1)
        right_modules  == Bucket(c, mods, row.modules, exp, "right", 1)
        a1 == PlaceLeftToRight(left_modules, 1, 0, acc.y_offset, acc.areas)
        a2 == PlaceRightToLeft(right_modules, Len(right_modules), total_width,
                               acc.y_offset, a1)
        center_total_width   == SumWidths(center_modules, 1)
        center_total_spacing == IF Len(center_modules) > 1
                                THEN (Len(center_modules) - 1) * 8 ELSE 0
        center_row_width     == center_total_width + center_total_spacing
        x_center == CenterStart(total_width, center_row_width)
        a3 == PlaceLeftToRight(center_modules, 1, x_center, acc.y_offset, a2)
    IN  [areas    |-> a3,
         y_offset |-> acc.y_offset
                      + AsI32(MaxHeight(left_modules \o center_modules \o right_modules, 1))
                      + AsI32(row_spacing)]

RECURSIVE LayoutRows(_, _, _, _, _, _)
LayoutRows(c, mods, exp, rows, i, acc) ==
    IF i > Len(rows) THEN acc
    ELSE LayoutRows(c, mods, exp, rows, i + 1, LayoutRow(c, mods, exp, rows[i], acc))

\* a layout that places only the modules whose init has run
calculate_module_layout_initialised_only(c, mods, exp) ==
    LET layout_state == IF exp THEN c.layout.expanded ELSE c.layout.collapsed
    IN  LayoutRows(c, SelectSeq(mods, LAMBDA m : m.init_called), exp,
                   layout_state.rows, 1, [areas |-> EmptyMap, y_offset |-> 0]).areas

\* calculate_module_layout: the ModuleLayout's areas
calculate_module_layout(c, mods, exp) ==
    LET layout_state == IF exp THEN c.layout.expanded ELSE c.layout.collapsed
    IN  LayoutRows(c, mods, exp, layout_state.rows, 1,
                   [areas |-> EmptyMap, y_offset |-> 0]).areas

-----------------------------------------------------------------------------
(* Configurations and events the environment may supply *)

\* module_id.strip_prefix("external:")
strip_prefix_external(module_id) ==
    IF module_id = "external:pa" THEN Some("pa") ELSE None

\* modules.module_configs: a table for the clock and one the plugin rejects
BothTables == [clock |-> "tOk", weather |-> "tErr"]

\* <<modules.enabled, modules.aliases, modules.module_configs>>: the built-in
\* "clock", alone and repeated; "weather", a plugin when the alias table
\* resolves it (to a library that loads, is missing, or has no entry point)
\* and an unknown id otherwise; the legacy "external:<path>" form
ModuleChoices ==
    { << <<>>, EmptyMap, EmptyMap >>,
      << <<"clock">>, EmptyMap, EmptyMap >>,
      << <<"clock">>, EmptyMap, BothTables >>,
      << <<"clock", "clock">>, EmptyMap, EmptyMap >>,
      << <<"weather">>, [weather |-> "pa"], EmptyMap >>,
      << <<"weather", "clock">>, [weather |-> "pa"], BothTables >>,
      << <<"clock", "weather">>, [weather |-> "pa"], BothTables >>,
      << <<"clock", "weather">>, [weather |-> "pa"], EmptyMap >>,
      << <<"weather", "clock">>, [weather |-> "missing"], EmptyMap >>,
      << <<"weather", "clock">>, [weather |-> "nosym"], EmptyMap >>,
      << <<"weather", "clock">>, EmptyMap, EmptyMap >>,
      << <<"external:pa", "clock">>, EmptyMap, EmptyMap >> }

NoStyle == [width |-> None, height |-> None]
Row(ids) == [alignment |-> None, modules |-> ids]
StateSet(e, c) == [expanded |-> e, collapsed |-> c]

\* the default style; one collapsed row, two expanded rows, all centred
ViewA ==
    [main      |-> [width |-> Some(300), height |-> Some(40)],
     collapsed |-> NoStyle,
     expanded  |-> NoStyle,
     layout    |-> [collapsed |-> [rows |-> <<Row(<<"clock">>)>>, row_spacing |-> None],
                    expanded  |-> [rows |-> <<Row(<<"weather">>), Row(<<"clock">>)>>,
                                   row_spacing |-> None]],
     state     |-> EmptyMap]

\* a narrow expanded notch whose left and right buckets overlap, and the
\* plugin hidden while collapsed
ViewB ==
    [main      |-> [width |-> Some(300), height |-> Some(40)],
     collapsed |-> [width |-> Some(200), height |-> None],
     expanded  |-> [width |-> Some(120), height |-> Some(80)],
     layout    |-> [collapsed |-> [rows |-> <<Row(<<"clock", "weather">>)>>,
                                   row_spacing |-> Some(4)],
                    expanded  |-> [rows |-> <<Row(<<"clock", "weather">>)>>,
                                   row_spacing |-> None]],
     state     |-> [weather |-> StateSet([visible |-> None, alignment |-> Some("left")],
                                         [visible |-> Some(FALSE), alignment |-> None]),
                    clock   |-> StateSet([visible |-> None, alignment |-> Some("right")],
                                         ModuleStateConfig_default)]]

Views == {ViewA, ViewB}

NotchConfig(enabled, aliases, module_configs, view) ==
    [main      |-> view.main,
     collapsed |-> view.collapsed,
     expanded  |-> view.expanded,
     modules   |-> [enabled        |-> enabled,
                    module_configs |-> module_configs,
                    state          |-> view.state,
                    aliases        |-> aliases],
     layout    |-> view.layout]

\* ModuleEvent
Event(kind, x, y, button) == [kind |-> kind, x |-> x, y |-> y, button |-> button]
PositionalKinds == {"Enter", "Motion", "Press", "Release"}
Points == { <<30, 5>>, <<10, 5>>, <<100, 29>>, <<120, 0>>, <<250, 10>> }
PressPoint == <<30, 5>>
\* BTN_LEFT
Buttons == {272}
PositionalEvents ==
    { Event("Motion", p[1], p[2], 0) : p \in Points }
    \cup { Event("Enter", PressPoint[1], PressPoint[2], 0) }
    \cup { Event(k, PressPoint[1], PressPoint[2], b) : k \in {"Press", "Release"}, b \in Buttons }
BroadcastEvents ==
    { Event(k, 0, 0, 0) : k \in {"Leave", "Update", "UpdateExpanded", "UpdateCollapsed"} }
ModuleEvents == PositionalEvents \cup BroadcastEvents

\* modules a caller may hand to add_module
AddableModules == {ClockModule_new, create_module("pa")}

-----------------------------------------------------------------------------
(* ModuleRegistry.  Each operation maps a state record (one field per        *)
(* variable, plus `ret`, the value the call returns) to the state after it.  *)

\* ModuleRegistry::add_module
add_module(s, module) == [s EXCEPT !.modules = Append(@, module)]

\* ModuleRegistry::load_external_module: [s, module]
load_external_module(s, path) ==
    IF ~LibraryNew(path)
    THEN [s |-> [s EXCEPT !.lib_calls = Append(@, [path |-> path, result |-> "not found"])],
          module |-> None]
    ELSE IF ~LibraryGetCreateModule(path)
    THEN [s |-> [s EXCEPT !.lib_calls = Append(@, [path |-> path, result |-> "no entry point"]),
                          !.disposals = Append(@, [kind |-> "library", lib |-> path,
                                                   held |-> s.modules])],
          module |-> None]
    ELSE [s |-> [s EXCEPT !.external_libs = Append(@, path),
                          !.lib_calls = Append(@, [path |-> path, result |-> "loaded"])],
          module |-> Some(create_module(path))]

\* `match self.load_external_module(path)`: add the module or warn
LoadAndAdd(s, path) ==
    LET r == load_external_module(s, path)
    IN  IF IsSome(r.module) THEN add_module(r.s, r.module[1]) ELSE r.s

\* the built-in match: "clock", or a warning for an unknown id
AddBuiltin(s, module_id) ==
    IF module_id = "clock" THEN add_module(s, ClockModule_new) ELSE s

\* one iteration of `for module_id in enabled`
AddIfMissing(s, c, module_id) ==
    IF \E i \in 1..Len(s.modules) : s.modules[i].id = module_id THEN s
    ELSE IF ContainsKey(c.modules.aliases, module_id)
         THEN LoadAndAdd(s, c.modules.aliases[module_id])
    ELSE IF IsSome(strip_prefix_external(module_id))
         THEN LoadAndAdd(s, strip_prefix_external(module_id)[1])
    ELSE AddBuiltin(s, module_id)

\* a loop that gives up at the first id it could not add
RECURSIVE AddMissing_stop_at_failure(_, _, _)
AddMissing_stop_at_failure(s, c, i) ==
    IF i > Len(c.modules.enabled) THEN s
    ELSE LET s1 == AddIfMissing(s, c, c.modules.enabled[i])
         IN  IF \E j \in 1..Len(s1.modules) : s1.modules[j].id = c.modules.enabled[i]
             THEN AddMissing_stop_at_failure(s1, c, i + 1)
             ELSE s1

RECURSIVE AddMissing(_, _, _)
AddMissing(s, c, i) ==
    IF i > Len(c.modules.enabled) THEN s
    ELSE AddMissing(AddIfMissing(s, c, c.modules.enabled[i]), c, i + 1)

\* the modules retain drops, in order, each with the modules still held
RECURSIVE Dropped(_, _, _, _)
Dropped(mods, c, i, kept) ==
    IF i > Len(mods) THEN <<>>
    ELSE IF mods[i].id \in Range(c.modules.enabled)
         THEN Dropped(mods, c, i + 1, Append(kept, mods[i]))
         ELSE <<[kind |-> "module", lib |-> mods[i].lib,
                 held |-> kept \o SubSeq(mods, i + 1, Len(mods))]>>
              \o Dropped(mods, c, i + 1, kept)

\* self.modules.retain(|m| enabled.contains(&m.id().to_string()))
RetainEnabled(s, c) ==
    LET keep(m) == m.id \in Range(c.modules.enabled)
    IN  [s EXCEPT !.modules = SelectSeq(@, keep),
                  !.disposals = @ \o Dropped(s.modules, c, 1, <<>>)]

\* `module.init(cfg)?` on module j: the state after the call, and whether
\* the loop goes on
InitOne(s, c, j) ==
    LET m   == s.modules[j]
        cfg == c.modules.module_configs[m.id]
        r   == module_init(m, cfg)
    IN  [s  |-> [s EXCEPT !.modules[j] = r.module,
                          !.init_calls = Append(@, [idx |-> j, id |-> m.id,
                                                    table |-> cfg, ok |-> r.ok,
                                                    again |-> m.init_called])],
         go |-> r.ok]

\* `for module in &mut self.modules { if let Some(cfg) = ... }`, then Ok(())
RECURSIVE InitModules(_, _, _)
InitModules(s, c, j) ==
    IF j > Len(s.modules) THEN [s EXCEPT !.ret = "Ok"]
    ELSE IF ContainsKey(c.modules.module_configs, s.modules[j].id)
         THEN LET r == InitOne(s, c, j)
              IN  IF r.go THEN InitModules(r.s, c, j + 1)
                  ELSE [r.s EXCEPT !.ret = "Err"]
         ELSE InitModules(s, c, j + 1)

\* ModuleRegistry::load_modules_from_config
load_modules_from_config(s, c) ==
    InitModules(AddMissing(RetainEnabled(s, c), c, 1), c, 1)

\* a layout pass that writes the new areas into the old map
calculate_layout_merge(s, c, exp) ==
    LET new == calculate_module_layout(c, s.modules, exp)
    IN  [s EXCEPT !.module_areas =
            [k \in (DOMAIN new) \cup (DOMAIN s.module_areas) |->
                IF k \in DOMAIN new THEN new[k] ELSE s.module_areas[k]],
                  !.requests = Append(@, "calculate_layout")]

\* ModuleRegistry::calculate_layout
calculate_layout(s, c, exp) ==
    [s EXCEPT !.module_areas = calculate_module_layout(c, s.modules, exp),
              !.requests = Append(@, "calculate_layout")]

\* drop of the field `modules`: the boxed modules, first to last
RECURSIVE DropModules(_)
DropModules(s) ==
    IF s.modules = <<>> THEN s
    ELSE DropModules([s EXCEPT !.modules = Tail(@),
                               !.disposals = Append(@, [kind |-> "module",
                                                        lib  |-> s.modules[1].lib,
                                                        held |-> Tail(s.modules)])])

\* drop of the field `external_libs`: the library handles, first to last
RECURSIVE DropLibs(_)
DropLibs(s) ==
    IF s.external_libs = <<>> THEN s
    ELSE DropLibs([s EXCEPT !.external_libs = Tail(@),
                            !.disposals = Append(@, [kind |-> "library",
                                                     lib  |-> s.external_libs[1],
                                                     held |-> s.modules])])

\* a registry whose library handles go before its modules
ModuleRegistry_drop_libs_first(s) ==
    [DropModules(DropLibs(s)) EXCEPT !.module_areas = EmptyMap]

\* the registry goes out of scope: its fields are dropped in the order of
\* their declaration, modules, module_areas, external_libs
ModuleRegistry_drop(s) ==
    DropLibs([DropModules(s) EXCEPT !.module_areas = EmptyMap])

\* the area map a draw or an event dispatch reads, with what it should match
UseAreas(s, what) ==
    [s EXCEPT !.area_uses = Append(@, [op |-> what, areas |-> s.module_areas,
                                       config |-> s.config, modules |-> s.modules,
                                       expanded |-> s.expanded])]

\* a draw loop that returns at the first module error
DrawOne_stop_at_error(s, i) ==
    LET m    == s.modules[i]
        area == s.module_areas[m.id]
        ok   == module_draw(m, area, s.plugin_draw_ok)
    IN  [s  |-> [s EXCEPT !.draw_calls = Append(@, [idx |-> i, id |-> m.id, area |-> area,
                                                    ok |-> ok])],
         go |-> ok]

\* `if let Err(e) = module.draw(canvas, *area)`: the error is logged
DrawOne(s, i) ==
    LET m    == s.modules[i]
        area == s.module_areas[m.id]
    IN  [s  |-> [s EXCEPT !.draw_calls = Append(@, [idx |-> i, id |-> m.id, area |-> area,
                                                    ok |-> module_draw(m, area, s.plugin_draw_ok)])],
         go |-> TRUE]

RECURSIVE DrawModules(_, _)
DrawModules(s, i) ==
    IF i > Len(s.modules) THEN [s EXCEPT !.ret = "()"]
    ELSE IF ContainsKey(s.module_areas, s.modules[i].id)
         THEN LET r == DrawOne(s, i)
              IN  IF r.go THEN DrawModules(r.s, i + 1) ELSE [r.s EXCEPT !.ret = "()"]
         ELSE DrawModules(s, i + 1)

\* ModuleRegistry::draw
ModuleRegistry_draw(s) == DrawModules(UseAreas(s, "draw"), 1)

\* the hit test of handle_event
Contains(area, x, y) ==
    /\ x >= area.x
    /\ y >= area.y
    /\ x < area.x + AsI32(area.width)
    /\ y < area.y + AsI32(area.height)

BoolStr(b) == IF b THEN "true" ELSE "false"

\* module.handle_event(event, *area) on module i: the state with the call
\* recorded, and what the module answered
Deliver(s, event, i) ==
    LET m    == s.modules[i]
        area == s.module_areas[m.id]
        r    == module_handle_event(m, event, area)
    IN  [s   |-> [s EXCEPT !.event_calls = Append(@, [idx |-> i, id |-> m.id,
                                                      event |-> event,
                                                      area |-> area, ret |-> r])],
         ret |-> r]

\* whether the positional loop stops at module i
Hit(s, event, i) ==
    /\ ContainsKey(s.module_areas, s.modules[i].id)
    /\ Contains(s.module_areas[s.modules[i].id], event.x, event.y)

\* a positional dispatch that goes on to the next module when one declines
RECURSIVE DispatchPositional_fall_through(_, _, _)
DispatchPositional_fall_through(s, event, i) ==
    IF i > Len(s.modules) THEN [s EXCEPT !.ret = "false"]
    ELSE IF Hit(s, event, i)
         THEN LET r == Deliver(s, event, i)
              IN  IF r.ret THEN [r.s EXCEPT !.ret = "true"]
                  ELSE DispatchPositional_fall_through(r.s, event, i + 1)
         ELSE DispatchPositional_fall_through(s, event, i + 1)

\* the first arm: `return module.handle_event(event, *area)` at the first hit
RECURSIVE DispatchPositional(_, _, _)
DispatchPositional(s, event, i) ==
    IF i > Len(s.modules) THEN [s EXCEPT !.ret = "false"]
    ELSE IF Hit(s, event, i)
         THEN LET r == Deliver(s, event, i)
              IN  [r.s EXCEPT !.ret = BoolStr(r.ret)]
         ELSE DispatchPositional(s, event, i + 1)

\* a broadcast that returns after the first module, whatever it answered
BroadcastStops_always(handled) == TRUE

\* whether the broadcast loop returns after module i answered `handled`
BroadcastStops(handled) == handled

\* the second arm: every module with an area, until one handles the event
RECURSIVE DispatchBroadcast(_, _, _)
DispatchBroadcast(s, event, i) ==
    IF i > Len(s.modules) THEN [s EXCEPT !.ret = "false"]
    ELSE IF ContainsKey(s.module_areas, s.modules[i].id)
         THEN LET r == Deliver(s, event, i)
              IN  IF BroadcastStops(r.ret) THEN [r.s EXCEPT !.ret = "true"]
                  ELSE DispatchBroadcast(r.s, event, i + 1)
         ELSE DispatchBroadcast(s, event, i + 1)

\* ModuleRegistry::handle_event
ModuleRegistry_handle_event(s, event) ==
    IF event.kind \in PositionalKinds
    THEN DispatchPositional(UseAreas(s, "handle_event"), event, 1)
    ELSE DispatchBroadcast(UseAreas(s, "handle_event"), event, 1)

-----------------------------------------------------------------------------
(* State records and the operation record *)

\* the state at the start of an operation: the variables, nothing recorded
\* yet, and what the environment will answer during it
Start(env) ==
    [plugin_draw_ok |-> env.plugin_draw_ok, shm_ok |-> env.shm_ok, modules |-> modules, module_areas |-> module_areas,
     external_libs |-> external_libs, config |-> config, width |-> width,
     height |-> height, configured |-> configured, expanded |-> expanded,
     layer_surface |-> layer_surface, buffer_drawn |-> buffer_drawn,
     last_draw |-> last_draw,
     init_calls |-> <<>>, draw_calls |-> <<>>, event_calls |-> <<>>,
     lib_calls |-> <<>>, area_uses |-> <<>>, frames |-> <<>>, ret |-> "()",
     disposals |-> <<>>, canvas |-> canvas, writes |-> {},
     since_performed |-> since_performed, glyphs |-> <<>>,
     requests |-> <<>>]

\* the operation just done: its name, its arguments and what it returned
Op(name, c, exp, event, ret) ==
    [name |-> name, config |-> c, expanded |-> exp, event |-> event, ret |-> ret]

\* the state `s` becomes the next state, `o` the operation done
Commit(s, o) ==
    /\ modules' = s.modules
    /\ module_areas' = s.module_areas
    /\ external_libs' = s.external_libs
    /\ config' = s.config
    /\ width' = s.width
    /\ height' = s.height
    /\ configured' = s.configured
    /\ expanded' = s.expanded
    /\ layer_surface' = s.layer_surface
    /\ buffer_drawn' = s.buffer_drawn
    /\ last_draw' = s.last_draw
    /\ init_calls' = s.init_calls
    /\ draw_calls' = s.draw_calls
    /\ event_calls' = s.event_calls
    /\ lib_calls' = s.lib_calls
    /\ area_uses' = s.area_uses
    /\ frames' = s.frames
    /\ disposals' = s.disposals
    /\ canvas' = s.canvas
    /\ writes' = s.writes
    /\ since_performed' = s.since_performed
    /\ glyphs' = s.glyphs
    /\ requests' = s.requests
    /\ op' = o

\* what the environment answers during one operation: whether the plugin's
\* draw succeeds, and whether the shared-memory pool yields a buffer
Calm == [plugin_draw_ok |-> TRUE, shm_ok |-> TRUE]
Envs == { Calm, [Calm EXCEPT !.plugin_draw_ok = FALSE], [Calm EXCEPT !.shm_ok = FALSE] }

\* the model stops loading where the registry would outgrow its bounds
WithinBounds(s) ==
    /\ Len(s.modules) <= MaxModules
    /\ Len(s.external_libs) <= MaxLibs

\* no canvas: the registry and the application handlers are modelled
\* without the pixels of the buffer
NoCanvas == [width |-> 0, height |-> 0, buffer |-> <<>>]

\* NotchConfig::default()
NotchConfig_default ==
    [main      |-> [width |-> Some(300), height |-> Some(40)],
     collapsed |-> NoStyle,
     expanded  |-> NoStyle,
     modules   |-> [enabled |-> <<>>, module_configs |-> EmptyMap,
                    state |-> EmptyMap, aliases |-> EmptyMap],
     layout    |-> [collapsed |-> [rows |-> <<>>, row_spacing |-> None],
                    expanded  |-> [rows |-> <<>>, row_spacing |-> None]]]

-----------------------------------------------------------------------------
(* Spec: the registry's API, called in any order *)

\* what load_modules_from_config reads of a configuration, and what
\* calculate_layout reads of it
LoadConfigs == { NotchConfig(m[1], m[2], m[3], ViewA) : m \in ModuleChoices }
LayoutConfigs == { NotchConfig(<<>>, EmptyMap, EmptyMap, v) : v \in Views }

\* ModuleRegistry::new
Init ==
    /\ modules = <<>>
    /\ module_areas = EmptyMap
    /\ external_libs = <<>>
    /\ config = NotchConfig_default
    /\ width = 300
    /\ height = 40
    /\ configured = FALSE
    /\ expanded = FALSE
    /\ layer_surface = TRUE
    /\ buffer_drawn = FALSE
    /\ last_draw = None
    /\ init_calls = <<>>
    /\ draw_calls = <<>>
    /\ event_calls = <<>>
    /\ lib_calls = <<>>
    /\ area_uses = <<>>
    /\ frames = <<>>
    /\ disposals = <<>>
    /\ canvas = NoCanvas
    /\ writes = {}
    /\ since_performed = None
    /\ glyphs = <<>>
    /\ requests = <<>>
    /\ op = Op("new", None, None, None, "()")

AddModule(m) ==
    /\ Len(modules) < MaxModules
    /\ Commit(add_module(Start(Calm), m), Op("add_module", None, None, None, "()"))

LoadModulesFromConfig(c) ==
    LET s == load_modules_from_config(Start(Calm), c)
    IN  /\ WithinBounds(s)
        /\ Commit(s, Op("load_modules_from_config", Some(c), None, None, s.ret))

CalculateLayout(c, exp) ==
    Commit(calculate_layout(Start(Calm), c, exp),
           Op("calculate_layout", Some(c), Some(exp), None, "()"))

Draw(plugin_draw_ok) ==
    LET s == ModuleRegistry_draw(Start([Calm EXCEPT !.plugin_draw_ok = plugin_draw_ok]))
    IN  Commit(s, Op("draw", None, None, None, s.ret))

HandleEvent(event) ==
    LET s == ModuleRegistry_handle_event(Start(Calm), event)
    IN  Commit(s, Op("handle_event", None, None, Some(event), s.ret))

\* the registry is dropped; what follows is the life of a new registry
Drop ==
    /\ modules # <<>> \/ external_libs # <<>>
    /\ Commit(ModuleRegistry_drop(Start(Calm)), Op("drop", None, None, None, "()"))

Next ==
    \/ \E m \in AddableModules : AddModule(m)
    \/ \E c \in LoadConfigs : LoadModulesFromConfig(c)
    \/ \E c \in LayoutConfigs, exp \in BOOLEAN : CalculateLayout(c, exp)
    \/ \E plugin_draw_ok \in BOOLEAN : Draw(plugin_draw_ok)
    \/ \E event \in ModuleEvents : HandleEvent(event)
    \/ Drop

Spec == Init /\ [][Next]_vars

-----------------------------------------------------------------------------
(* AppData and the event loop's handlers *)

\* Duration::from_millis(16), the least time between two performed draws
DrawIntervalMs == 16

\* AppData::set_full_input_region: the region goes to the compositor; no
\* field the handlers read changes
set_full_input_region(s) ==
    IF s.layer_surface THEN [s EXCEPT !.requests = Append(@, "set_input_region")]
    ELSE s

\* the performed part of AppData::draw, from `self.last_draw = Some(now)` on.
\* last_draw holds the time since the last performed draw, up to the interval
PerformDraw(s) ==
    LET style == style_for(s.config, s.expanded)
        s1    == [s EXCEPT !.last_draw = Some(0),
                           !.width = style.width, !.height = style.height]
    IN  IF ~s1.shm_ok THEN [s1 EXCEPT !.ret = "Err"]
        ELSE LET s2 == ModuleRegistry_draw(s1)
             IN  [s2 EXCEPT !.frames = Append(@, [expanded  |-> s2.expanded,
                                                  width     |-> s2.width,
                                                  height    |-> s2.height,
                                                  committed |-> s2.layer_surface]),
                            !.since_performed = Some(0),
                            !.ret = "Ok"]

\* a draw without `if !self.configured`
AppData_draw_unconfigured(s) ==
    IF IsSome(s.last_draw) /\ s.last_draw[1] < DrawIntervalMs
    THEN [s EXCEPT !.ret = "Ok"]
    ELSE PerformDraw(s)

\* AppData::draw
AppData_draw(s) ==
    IF ~s.configured THEN [s EXCEPT !.ret = "Ok"]
    ELSE IF IsSome(s.last_draw) /\ s.last_draw[1] < DrawIntervalMs
         THEN [s EXCEPT !.ret = "Ok"]
    ELSE PerformDraw(s)

\* the surface part of AppData::resize: `if let Some(layer_surface) = ..`
ResizeSurface(s) ==
    IF s.layer_surface
    THEN LET s1 == [s EXCEPT !.requests = Append(@, "set_size")]
             s2 == calculate_layout(s1, s1.config, s1.expanded)
             s3 == [s2 EXCEPT !.requests = Append(@, "commit")]
         IN  AppData_draw(set_full_input_region(s3))
    ELSE s

\* a resize that expands and never collapses
resize_expand_only(s, expand) ==
    IF s.expanded = expand \/ ~expand THEN s
    ELSE LET style == style_for(s.config, expand)
         IN  ResizeSurface([s EXCEPT !.expanded = expand,
                                     !.width = style.width, !.height = style.height])

\* a resize without `if self.expanded == expand`
resize_always(s, expand) ==
    LET style == style_for(s.config, expand)
    IN  ResizeSurface([s EXCEPT !.expanded = expand,
                                !.width = style.width, !.height = style.height])

\* AppData::resize
resize(s, expand) ==
    IF s.expanded = expand THEN s
    ELSE LET style == style_for(s.config, expand)
         IN  ResizeSurface([s EXCEPT !.expanded = expand,
                                     !.width = style.width, !.height = style.height])

\* AppData::update_modules
update_modules(s) ==
    IF s.expanded THEN ModuleRegistry_handle_event(s, Event("UpdateExpanded", 0, 0, 0))
    ELSE ModuleRegistry_handle_event(s, Event("UpdateCollapsed", 0, 0, 0))

\* AppData::reload_config
reload_config(s, new_config) ==
    LET style == style_for(new_config, s.expanded)
        s0    == [s EXCEPT !.config = new_config,
                           !.width = style.width, !.height = style.height]
        s1    == IF s0.layer_surface
                 THEN [s0 EXCEPT !.requests = @ \o <<"set_size", "commit">>]
                 ELSE s0
        s2    == load_modules_from_config(s1, s1.config)
        s3    == calculate_layout(s2, s2.config, s2.expanded)
    IN  AppData_draw(s3)

\* AppData::close_layer_surface
close_layer_surface(s) == [s EXCEPT !.layer_surface = FALSE]

\* a configure that sets the input region and draws every time
configure_every_time(s, new_size) ==
    LET w  == IF new_size[1] # 0 THEN new_size[1] ELSE s.width
        h  == IF new_size[2] # 0 THEN new_size[2] ELSE s.height
        s1 == [s EXCEPT !.width = w, !.height = h, !.configured = TRUE]
    IN  [AppData_draw(set_full_input_region(s1)) EXCEPT !.buffer_drawn = TRUE]

\* LayerShellHandler::configure
configure(s, new_size) ==
    LET w  == IF new_size[1] # 0 THEN new_size[1] ELSE s.width
        h  == IF new_size[2] # 0 THEN new_size[2] ELSE s.height
        s1 == [s EXCEPT !.width = w, !.height = h, !.configured = TRUE]
    IN  IF ~s1.buffer_drawn
        THEN [AppData_draw(set_full_input_region(s1)) EXCEPT !.buffer_drawn = TRUE]
        ELSE s1

\* convert_pointer_event: whether the pointer event has a ModuleEvent
convert_pointer_event(kind) == kind \in {"Enter", "Leave", "Motion", "Press", "Release"}

\* one iteration of handle_pointer_events
PointerEvent(s, kind) ==
    LET s1 == IF kind = "Enter" THEN AppData_draw(resize(s, TRUE))
              ELSE IF kind = "Leave" THEN AppData_draw(resize(s, FALSE))
              ELSE s
    IN  IF s1.expanded /\ convert_pointer_event(kind) THEN update_modules(s1) ELSE s1

\* handle_pointer_events
RECURSIVE handle_pointer_events(_, _, _)
handle_pointer_events(s, events, i) ==
    IF i > Len(events) THEN s
    ELSE handle_pointer_events(PointerEvent(s, events[i]), events, i + 1)

\* CompositorHandler::frame
frame(s) == IF s.expanded THEN update_modules(s) ELSE s

\* the one-second timer of main
timer(s) ==
    LET s1 == update_modules(s)
    IN  IF s1.configured /\ s1.buffer_drawn /\ s1.expanded THEN AppData_draw(s1) ELSE s1

\* AppData::new: the registry is loaded and laid out collapsed
AppData_new(c) ==
    LET style == style_for(c, FALSE)
        s0 == [plugin_draw_ok |-> TRUE, shm_ok |-> TRUE,
               modules |-> <<>>, module_areas |-> EmptyMap, external_libs |-> <<>>,
               config |-> c, width |-> style.width, height |-> style.height,
               configured |-> FALSE, expanded |-> FALSE, layer_surface |-> TRUE,
               buffer_drawn |-> FALSE, last_draw |-> None,
               init_calls |-> <<>>, draw_calls |-> <<>>, event_calls |-> <<>>,
               lib_calls |-> <<>>, area_uses |-> <<>>, frames |-> <<>>, ret |-> "()",
               disposals |-> <<>>, canvas |-> NoCanvas, writes |-> {},
               since_performed |-> None, glyphs |-> <<>>, requests |-> <<>>]
    IN  calculate_layout(load_modules_from_config(s0, c), c, FALSE)

-----------------------------------------------------------------------------
(* SpecApp: the application *)

\* the configurations the file on disk goes through
AppConfigs ==
    { NotchConfig_default,
      NotchConfig(<<"clock">>, EmptyMap, EmptyMap, ViewA),
      NotchConfig(<<"clock", "weather">>, [weather |-> "pa"], EmptyMap, ViewA),
      NotchConfig(<<"weather", "clock">>, [weather |-> "pa"], BothTables, ViewB),
      NotchConfig(<<"external:pa", "clock">>, EmptyMap, EmptyMap, ViewA) }

\* sizes the compositor may configure the surface with (0: up to the client)
ConfigureSizes == { <<0, 0>>, <<320, 0>> }

PointerEventKinds == {"Enter", "Leave", "Motion", "Press", "Release", "Axis"}

RECURSIVE SeqsUpTo(_, _)
SeqsUpTo(S, n) ==
    IF n = 0 THEN {<<>>}
    ELSE LET shorter == SeqsUpTo(S, n - 1)
         IN  shorter \cup {Append(q, x) : q \in {r \in shorter : Len(r) = n - 1}, x \in S}

PointerFrames == SeqsUpTo(PointerEventKinds, MaxFrameEvents) \ {<<>>}

InitApp ==
    \E c \in AppConfigs :
        LET s == AppData_new(c)
        IN  /\ WithinBounds(s)
            /\ modules = s.modules
            /\ module_areas = s.module_areas
            /\ external_libs = s.external_libs
            /\ config = s.config
            /\ width = s.width
            /\ height = s.height
            /\ configured = s.configured
            /\ expanded = s.expanded
            /\ layer_surface = s.layer_surface
            /\ buffer_drawn = s.buffer_drawn
            /\ last_draw = s.last_draw
            /\ init_calls = s.init_calls
            /\ draw_calls = s.draw_calls
            /\ event_calls = s.event_calls
            /\ lib_calls = s.lib_calls
            /\ area_uses = s.area_uses
            /\ frames = s.frames
            /\ disposals = s.disposals
            /\ canvas = s.canvas
            /\ writes = s.writes
            /\ since_performed = s.since_performed
            /\ glyphs = s.glyphs
            /\ requests = s.requests
            /\ op = Op("new", Some(c), None, None, s.ret)

Configure(new_size, env) ==
    Commit(configure(Start(env), new_size), Op("configure", None, None, None, "()"))

Closed ==
    Commit(close_layer_surface(Start(Calm)), Op("closed", None, None, None, "()"))

PointerFrame(events, env) ==
    Commit(handle_pointer_events(Start(env), events, 1),
           Op("pointer_frame", None, None, Some(events), "()"))

Frame ==
    Commit(frame(Start(Calm)), Op("frame", None, None, None, "()"))

TimerFired(env) ==
    Commit(timer(Start(env)), Op("timer", None, None, None, "()"))

ReloadConfig(c, env) ==
    LET s == reload_config(Start(env), c)
    IN  /\ WithinBounds(s)
        /\ Commit(s, Op("reload_config", Some(c), None, None, "()"))

\* TickMs milliseconds pass
Tick ==
    /\ IsSome(last_draw)
    /\ last_draw[1] < DrawIntervalMs
    /\ LET t == last_draw[1] + TickMs
           p == IF IsSome(since_performed) THEN Some(Min2(since_performed[1] + TickMs,
                                                          DrawIntervalMs))
                ELSE None
       IN  Commit([Start(Calm) EXCEPT !.last_draw =
                       Some(IF t > DrawIntervalMs THEN DrawIntervalMs ELSE t),
                                      !.since_performed = p],
                  Op("tick", None, None, None, "()"))

NextApp ==
    \/ \E new_size \in ConfigureSizes, env \in Envs : Configure(new_size, env)
    \/ Closed
    \/ \E events \in PointerFrames, env \in Envs : PointerFrame(events, env)
    \/ Frame
    \/ \E env \in Envs : TimerFired(env)
    \/ \E c \in AppConfigs, env \in Envs : ReloadConfig(c, env)
    \/ Tick

SpecApp == InitApp /\ [][NextApp]_vars

-----------------------------------------------------------------------------
(* SpecNotch: the application over the configurations of one notch, with    *)
(* and without its clock                                                    *)

NotchConfigs ==
    { NotchConfig_default, NotchConfig(<<"clock">>, EmptyMap, EmptyMap, ViewA) }

InitNotch == InitApp /\ config \in NotchConfigs

NextNotch ==
    \/ \E new_size \in ConfigureSizes, env \in Envs : Configure(new_size, env)
    \/ Closed
    \/ \E events \in PointerFrames, env \in Envs : PointerFrame(events, env)
    \/ Frame
    \/ \E env \in Envs : TimerFired(env)
    \/ \E c \in NotchConfigs, env \in Envs : ReloadConfig(c, env)
    \/ Tick

SpecNotch == InitNotch /\ [][NextNotch]_vars

\* SpecResize: SpecNotch and AppData::resize called on its own
Resize(expand, env) ==
    Commit(resize(Start(env), expand), Op("resize", None, Some(expand), None, "()"))

NextResize ==
    \/ NextNotch
    \/ \E expand \in BOOLEAN, env \in Envs : Resize(expand, env)

SpecResize == InitNotch /\ [][NextResize]_vars

-----------------------------------------------------------------------------
(* SpecHover: the pointer entering and leaving the notch of one             *)
(* configuration, under a timer that keeps firing and time that passes      *)

\* the pointer frames of SpecHover
HoverFrames == { <<"Enter">>, <<"Leave">>, <<"Motion">> }

\* the timer fires, shared memory available
TimerTick ==
    \E s \in {timer(Start(Calm))} : Commit(s, Op("timer", None, None, None, "()"))

InitHover == InitApp /\ config = NotchConfig(<<"clock">>, EmptyMap, EmptyMap, ViewA)

NextHover ==
    \/ \E env \in Envs : Configure(<<0, 0>>, env)
    \/ Closed
    \/ \E events \in HoverFrames : PointerFrame(events, Calm)
    \/ TimerTick
    \/ Tick

\* time passes and the one-second timer of main keeps firing (main.rs:135-147);
\* but for the first draw, shared memory is available
SpecHover == InitHover /\ [][NextHover]_vars /\ WF_vars(Tick) /\ WF_vars(TimerTick)

-----------------------------------------------------------------------------
(* SpecLayout: the layout engine and the dispatch over registries of any     *)
(* modules: a registry is built with add_module and laid out, then events    *)
(* are dispatched to it                                                      *)

\* per-module state configurations: "l" left, "r" right, "h" hidden, every
\* other id with the defaults (visible, centred)
Aligned(al) ==
    StateSet([visible |-> None, alignment |-> Some(al)],
             [visible |-> None, alignment |-> Some(al)])
Hidden ==
    StateSet([visible |-> Some(FALSE), alignment |-> None],
             [visible |-> Some(FALSE), alignment |-> None])
LayoutStates == [l |-> Aligned("left"), r |-> Aligned("right"), h |-> Hidden]

\* the rows of a layout, the same in both states
LayoutRowChoices ==
    { << Row(<<"l", "r", "c">>) >>,
      << Row(<<"c", "d">>) >>,
      << Row(<<"c", "d", "clock">>) >>,
      << Row(<<"l", "c">>), Row(<<"r", "d", "h">>) >>,
      << Row(<<"clock">>), Row(<<"c", "missing">>) >>,
      << Row(<<"c">>), Row(<<"c", "d">>) >> }

LayoutWidths == {300, 120}

\* a configuration of that width and those rows; the expanded state has its
\* own row spacing
LayoutView(w, rows) ==
    [main      |-> [width |-> Some(w), height |-> Some(40)],
     collapsed |-> NoStyle,
     expanded  |-> NoStyle,
     layout    |-> [collapsed |-> [rows |-> rows, row_spacing |-> None],
                    expanded  |-> [rows |-> rows, row_spacing |-> Some(4)]],
     state     |-> LayoutStates]

LayoutViews == { LayoutView(w, rows) : w \in LayoutWidths, rows \in LayoutRowChoices }

\* the configurations of those views; no module is enabled by them, the
\* registries are built with add_module
RowConfigs == { NotchConfig(<<>>, EmptyMap, EmptyMap, v) : v \in LayoutViews }

\* the registries: modules of several sizes, two of them with one id
ModuleLists ==
    LET L == PluginModule("l", <<50, 20>>)
        R == PluginModule("r", <<60, 20>>)
        C == PluginModule("c", <<40, 20>>)
        D == PluginModule("d", <<70, 25>>)
        H == PluginModule("h", <<30, 10>>)
        K == PluginModule("clock", <<60, 20>>)
    IN  { <<>>, <<L, R, C>>, <<C, D>>, <<C, D, ClockModule_new>>, <<L, R, C, D, H>>,
          <<D, C, R, L>>, <<ClockModule_new, K>>, <<K, ClockModule_new>> }

\* ModuleRegistry::new, add_module for each module, calculate_layout
RECURSIVE AddAll(_, _, _)
AddAll(s, mods, i) ==
    IF i > Len(mods) THEN s ELSE AddAll(add_module(s, mods[i]), mods, i + 1)

RegistryOf(mods, c, exp) ==
    LET s0 == [Start(Calm) EXCEPT !.modules = <<>>, !.module_areas = EmptyMap,
                                  !.external_libs = <<>>]
    IN  Commit(calculate_layout(AddAll(s0, mods, 1), c, exp),
               Op("calculate_layout", Some(c), Some(exp), None, "()"))

NextLayout ==
    \/ \E mods \in ModuleLists, c \in RowConfigs, exp \in BOOLEAN :
          RegistryOf(mods, c, exp)
    \/ \E event \in ModuleEvents : HandleEvent(event)
    \/ \E plugin_draw_ok \in BOOLEAN : Draw(plugin_draw_ok)

SpecLayout == Init /\ [][NextLayout]_vars

-----------------------------------------------------------------------------
(* Canvas and the background fill (src/draw.rs) *)

\* width in bits of the integers of the canvas arithmetic, scaled down from
\* the 32 of i32 and u32 so that the wrapping casts stay within reach
IntBits == 6

RECURSIVE Pow2(_)
Pow2(n) == IF n = 0 THEN 1 ELSE 2 * Pow2(n - 1)

\* u32::MAX + 1, i32::MIN, i32::MAX at that width
U32Modulus == Pow2(IntBits)
I32Min == 0 - Pow2(IntBits - 1)
I32Max == Pow2(IntBits - 1) - 1

\* `n as u32` and `n as i32`: the casts wrap
as_u32(n) == n % U32Modulus
as_i32(n) == LET m == n % U32Modulus IN IF m > I32Max THEN m - U32Modulus ELSE m

\* whether an i32 (a u32) result is representable; where it is not, a build
\* with overflow checks panics and a build without them wraps
FitsI32(n) == I32Min <= n /\ n <= I32Max
FitsU32(n) == 0 <= n /\ n < U32Modulus

\* the bytes of a buffer handed out by the pool before anything is drawn:
\* whatever it held, no two neighbouring bytes alike and none a colour's
PriorByte(i) == 100 + (i % 100)

\* Canvas::new over a buffer of width * height * 4 bytes (app.rs:137,146-166)
Canvas_new(w, h) ==
    [width |-> w, height |-> h, buffer |-> [i \in 1 .. w * h * 4 |-> PriorByte(i)]]

\* the four bytes of the pixel at byte offset idx
PixelAtIdx(buffer, idx) ==
    <<buffer[idx + 1], buffer[idx + 2], buffer[idx + 3], buffer[idx + 4]>>

\* the pixel at column x of row y
PixelAt(cv, x, y) == PixelAtIdx(cv.buffer, (y * cv.width + x) * 4)

\* `buffer[idx..idx + 4].copy_from_slice(&color)` for every idx of a set
CopyFromSlice(buffer, idxs, color) ==
    [i \in 1 .. Len(buffer) |->
        IF ((i - 1) \div 4) * 4 \in idxs THEN color[((i - 1) % 4) + 1] ELSE buffer[i]]

\* `if idx + 3 < self.buffer.len()` left out
IdxInBuffer_unguarded(idx, len) == TRUE

\* `if idx + 3 < self.buffer.len()`
IdxInBuffer(idx, len) == idx + 3 < len

\* the position of the iteration (y, x) in the order of the two loops
LoopOrder(p) == p[1] * U32Modulus + p[2]

\* Canvas::fill_rect.  overflow_checks is the build: with them an overflowing
\* `x + width as i32`, `y + height as i32` or `y * self.width + x` panics,
\* without them it wraps
fill_rect(s, x, y, w, h, color, overflow_checks) ==
    LET cv      == s.canvas
        x_start == as_u32(Max2(x, 0))
        y_start == as_u32(Max2(y, 0))
        x_sum   == x + as_i32(w)
        y_sum   == y + as_i32(h)
        x_end   == as_u32(Min2(as_i32(x_sum), as_i32(cv.width)))
        y_end   == as_u32(Min2(as_i32(y_sum), as_i32(cv.height)))
        steps   == { <<yy, xx>> : yy \in y_start .. y_end - 1,
                                  xx \in x_start .. x_end - 1 }
        over    == { p \in steps : ~FitsU32(p[1] * cv.width + p[2]) }
        stop    == IF overflow_checks /\ over # {}
                   THEN LoopOrder(CHOOSE p \in over :
                                     \A q \in over : LoopOrder(p) <= LoopOrder(q))
                   ELSE U32Modulus * U32Modulus
        done    == { p \in steps : LoopOrder(p) < stop }
        idxs    == { as_u32(p[1] * cv.width + p[2]) * 4 : p \in done }
        written == { idx \in idxs : IdxInBuffer(idx, Len(cv.buffer)) }
    IN  IF overflow_checks /\ (~FitsI32(x_sum) \/ ~FitsI32(y_sum))
        THEN [s EXCEPT !.ret = "panic"]
        ELSE IF x_end <= x_start \/ y_end <= y_start THEN [s EXCEPT !.ret = "()"]
        ELSE [s EXCEPT !.canvas.buffer = CopyFromSlice(@, written, color),
                       !.writes = written,
                       !.ret = IF overflow_checks /\ over # {} THEN "panic" ELSE "()"]

\* the shortcut of fill_canvas_with_rounded_corners without `!expanded`
FastPath_radius_only(is_expanded, corner_radius) == corner_radius = 0

\* `if !expanded || corner_radius == 0`
FastPath(is_expanded, corner_radius) == ~is_expanded \/ corner_radius = 0

\* `in_rounded_area` of fill_canvas_with_rounded_corners
in_rounded_area(x, y, w, h, radius) ==
    IF y > as_i32(h) - radius
    THEN IF x < radius
         THEN LET dx == radius - x
                  dy == y - (as_i32(h) - radius)
              IN  dx * dx + dy * dy > radius * radius
         ELSE IF x >= as_i32(w) - radius
         THEN LET dx == x - (as_i32(w) - radius)
                  dy == y - (as_i32(h) - radius)
              IN  dx * dx + dy * dy > radius * radius
         ELSE FALSE
    ELSE FALSE

\* fill_canvas_with_rounded_corners over the canvas' buffer
fill_canvas_with_rounded_corners(s, is_expanded, corner_radius, color) ==
    LET cv     == s.canvas
        radius == as_i32(corner_radius)
        pixels == { (y * as_i32(cv.width) + x) * 4 :
                        x \in 0 .. cv.width - 1, y \in 0 .. cv.height - 1 }
    IN  IF FastPath(is_expanded, corner_radius)
        THEN [s EXCEPT !.canvas.buffer = CopyFromSlice(@, pixels, color),
                       !.writes = pixels]
        ELSE [s EXCEPT !.canvas.buffer =
                 [i \in 1 .. Len(@) |->
                     LET px == (i - 1) \div 4
                         x  == px % cv.width
                         y  == px \div cv.width
                     IN  IF in_rounded_area(x, y, cv.width, cv.height, radius)
                         THEN 0
                         ELSE color[((i - 1) % 4) + 1]],
                       !.writes = pixels]

-----------------------------------------------------------------------------
(* SpecCanvas: fill_rect and the background fill, each on a canvas fresh     *)
(* from the pool, for rectangles, radii and builds of every kind             *)

\* the canvases: width and height of each
CanvasSizes == { <<1, 1>>, <<3, 2>>, <<4, 4>>, <<10, 2>> }
\* [b, g, r, a]
Colors == { <<10, 20, 30, 40>> }
\* x and y of a rectangle (i32), its width and height (u32)
RectOrigins == { -5, -1, 0, 2, I32Max }
RectExtents == { 0, 1, 4, 12, U32Modulus - 1 }
\* corner radii
Radii == { 0, 1, 2, 4, 5 }

InitCanvas ==
    /\ modules = <<>>
    /\ module_areas = EmptyMap
    /\ external_libs = <<>>
    /\ config = NotchConfig_default
    /\ width = 300
    /\ height = 40
    /\ configured = FALSE
    /\ expanded = FALSE
    /\ layer_surface = TRUE
    /\ buffer_drawn = FALSE
    /\ last_draw = None
    /\ init_calls = <<>>
    /\ draw_calls = <<>>
    /\ event_calls = <<>>
    /\ lib_calls = <<>>
    /\ area_uses = <<>>
    /\ frames = <<>>
    /\ disposals = <<>>
    /\ \E size \in CanvasSizes : canvas = Canvas_new(size[1], size[2])
    /\ writes = {}
    /\ since_performed = None
    /\ glyphs = <<>>
    /\ requests = <<>>
    /\ op = Op("Canvas::new", None, None, None, "()")

FillRect(x, y, w, h, color, overflow_checks) ==
    /\ op.name = "Canvas::new"
    /\ LET s == fill_rect(Start(Calm), x, y, w, h, color, overflow_checks)
       IN  Commit(s, Op("fill_rect", None, None,
                        Some([x |-> x, y |-> y, width |-> w, height |-> h,
                              color |-> color,
                              overflow_checks |-> overflow_checks]), s.ret))

FillRounded(is_expanded, corner_radius, color) ==
    /\ op.name = "Canvas::new"
    /\ LET s == fill_canvas_with_rounded_corners(Start(Calm), is_expanded,
                                                 corner_radius, color)
       IN  Commit(s, Op("fill_canvas_with_rounded_corners", None,
                        Some(is_expanded),
                        Some([corner_radius |-> corner_radius, color |-> color]),
                        s.ret))

NextCanvas ==
    \/ \E x \in RectOrigins, y \in RectOrigins, w \in RectExtents,
          h \in RectExtents, color \in Colors, overflow_checks \in BOOLEAN :
          FillRect(x, y, w, h, color, overflow_checks)
    \/ \E is_expanded \in BOOLEAN, corner_radius \in Radii, color \in Colors :
          FillRounded(is_expanded, corner_radius, color)

SpecCanvas == InitCanvas /\ [][NextCanvas]_vars

-----------------------------------------------------------------------------
(* f32 arithmetic, as draw_text uses it (src/draw.rs:163-228)                *)

\* an f32 that is zero or positive and normal: mantissa m of 24 bits and
\* exponent x, the value m * 2^x; zero is m = 0
F32Zero == [m |-> 0, x |-> 0]

\* the number of bits of n
RECURSIVE BitLen(_)
BitLen(n) == IF n = 0 THEN 0 ELSE 1 + BitLen(n \div 2)

\* n * 2^x rounded to the nearest f32, ties to the even mantissa
F32Round(n, x) ==
    IF n = 0 THEN F32Zero
    ELSE LET bl == BitLen(n) IN
         IF bl <= 24 THEN [m |-> n * Pow2(24 - bl), x |-> x - (24 - bl)]
         ELSE LET k    == bl - 24
                  q    == n \div Pow2(k)
                  r    == n % Pow2(k)
                  half == Pow2(k - 1)
                  q2   == IF r > half \/ (r = half /\ q % 2 = 1) THEN q + 1 ELSE q
              IN  IF q2 = Pow2(24) THEN [m |-> Pow2(23), x |-> x + k + 1]
                  ELSE [m |-> q2, x |-> x + k]

\* n shifted right by d bits, the lowest bit kept set if any bit was lost
ShiftRightSticky(n, d) ==
    IF d = 0 THEN n
    ELSE IF d >= 31 THEN (IF n # 0 THEN 1 ELSE 0)
    ELSE LET q == n \div Pow2(d)
         IN  IF n % Pow2(d) # 0 /\ q % 2 = 0 THEN q + 1 ELSE q

\* `n as f32` of an integer below 2^24
F32FromInt(n) == F32Round(n, 0)

\* a + b
F32Add(a, b) ==
    IF a.m = 0 THEN b
    ELSE IF b.m = 0 THEN a
    ELSE LET big   == IF a.x >= b.x THEN a ELSE b
             small == IF a.x >= b.x THEN b ELSE a
         IN  F32Round(big.m * 8 + ShiftRightSticky(small.m * 8, big.x - small.x),
                      big.x - 3)

\* a - b, for a >= b
F32Sub(a, b) ==
    IF b.m = 0 THEN a
    ELSE F32Round(a.m * 8 - ShiftRightSticky(b.m * 8, a.x - b.x), a.x - 3)

\* a * b, the 48 bits of the product of the mantissas in parts of 12 bits
F32Mul(a, b) ==
    IF a.m = 0 \/ b.m = 0 THEN F32Zero
    ELSE LET ah     == a.m \div 4096
             al     == a.m % 4096
             bh     == b.m \div 4096
             bl     == b.m % 4096
             lo     == al * bl
             mid    == ah * bl + al * bh + (lo \div 4096)
             hi     == ah * bh + (mid \div 4096)
             sticky == (mid % 4096) % 512 # 0 \/ lo % 4096 # 0
             n      == hi * 8 + ((mid % 4096) \div 512)
         IN  F32Round(IF sticky /\ n % 2 = 0 THEN n + 1 ELSE n, a.x + b.x + 21)

\* the bits of n / d after the integer part q, until there are 27 of them
RECURSIVE LongDivision(_, _, _, _)
LongDivision(q, r, d, k) ==
    IF BitLen(q) >= 27
    THEN F32Round(IF r # 0 /\ q % 2 = 0 THEN q + 1 ELSE q, 0 - k)
    ELSE LET bit == IF 2 * r >= d THEN 1 ELSE 0
         IN  LongDivision(2 * q + bit, 2 * r - d * bit, d, k + 1)

\* `n as f32 / d`, for integers n and d that an f32 holds exactly
F32DivInts(n, d) == IF n = 0 THEN F32Zero ELSE LongDivision(n \div d, n % d, d, 0)

\* a <= b
F32Le(a, b) ==
    \/ a.m = 0
    \/ b.m # 0 /\ (a.x < b.x \/ (a.x = b.x /\ a.m <= b.m))

\* a.min(b)
F32Min(a, b) == IF F32Le(a, b) THEN a ELSE b

\* the integer part of a; 2^30 stands for every value from 2^30 on
F32Trunc(a) ==
    IF a.m = 0 THEN 0
    ELSE IF a.x >= 0 THEN (IF a.x > 6 THEN Pow2(30) ELSE a.m * Pow2(a.x))
    ELSE IF 0 - a.x > 24 THEN 0
    ELSE a.m \div Pow2(0 - a.x)

\* `a as u8` and `a as i32` of a value that is not negative: the integer
\* part, saturated
F32AsU8(a) == Min2(255, F32Trunc(a))
F32AsI32(a) == F32Trunc(a)

F32One == F32FromInt(1)
F32_255 == F32FromInt(255)

-----------------------------------------------------------------------------
(* Canvas::draw_text (src/draw.rs:163-228)                                   *)

\* Metrics and bitmap of a rasterized glyph (font.rasterize): the bitmap is
\* the coverage of each of its width * height pixels, row by row
Glyph(w, h, xmin, ymin, advance_width, bitmap) ==
    [width |-> w, height |-> h, xmin |-> xmin, ymin |-> ymin,
     advance_width |-> advance_width, bitmap |-> bitmap]

\* the glyphs of the system font at the size of 16: "a" and "i" have pixels,
\* " " has neither width nor height, "_" has width and no height; "a" and " "
\* advance by 2.5, "i" and "_" by 1.0
SystemFont ==
    [c \in {"a", " ", "i", "_"} |->
        CASE c = "a" -> Glyph(2, 2, 0, 0, F32Round(5, -1), <<65, 255, 0, 128>>)
          [] c = " " -> Glyph(0, 0, 0, 0, F32Round(5, -1), <<>>)
          [] c = "i" -> Glyph(1, 2, 1, -1, F32FromInt(1), <<1, 254>>)
          [] c = "_" -> Glyph(2, 0, 0, 0, F32FromInt(1), <<>>)]

\* a * 0.5
F32Half(a) == IF a.m = 0 THEN a ELSE [a EXCEPT !.x = @ - 1]

\* the characters of a time of day
DigitChars == <<"0", "1", "2", "3", "4", "5", "6", "7", "8", "9">>

\* the glyphs of the system font for the characters of a time of day, at a
\* size: a digit is half the size wide and the size high, the colon is one
\* pixel wide and half the size high, each of one pixel at least; both
\* advance by half the size
TimeGlyph(c, size) ==
    LET n == F32Trunc(size)
        w == IF c = ":" THEN 1 ELSE Max2(1, n \div 2)
        h == IF c = ":" THEN Max2(1, n \div 2) ELSE Max2(1, n)
    IN  Glyph(w, h, 0, 0, F32Half(size),
              [i \in 1 .. w * h |-> IF c = ":" THEN 128 ELSE 255])

\* `font.rasterize(c, scale)`
rasterize(c, scale) ==
    IF c \in DOMAIN SystemFont THEN SystemFont[c] ELSE TimeGlyph(c, scale)

\* `if metrics.width == 0 || metrics.height == 0`
NonRenderable(metrics) == metrics.width = 0 \/ metrics.height = 0

\* the cursor after a glyph (draw.rs:175 and 225)
Advance(metrics, cursor_x) ==
    IF NonRenderable(metrics)
    THEN cursor_x + F32AsI32(F32Add(metrics.advance_width, F32One))
    ELSE cursor_x + F32AsI32(metrics.advance_width)

\* `existing * (1.0 - blend_alpha) + new * blend_alpha` as u8
BlendChannel(existing, new, alpha) ==
    LET blend_alpha == F32DivInts(alpha, 255)
    IN  F32AsU8(F32Add(F32Mul(F32FromInt(existing), F32Sub(F32One, blend_alpha)),
                       F32Mul(F32FromInt(new), blend_alpha)))

\* the alpha channel after the blend (draw.rs:216-220)
BlendAlpha(existing, color_alpha, alpha) ==
    LET blend_alpha    == F32DivInts(alpha, 255)
        existing_alpha == F32DivInts(existing, 255)
        new_alpha      == F32Mul(F32DivInts(color_alpha, 255), blend_alpha)
        final_alpha    == F32Mul(F32Add(existing_alpha,
                                        F32Mul(new_alpha,
                                               F32Sub(F32One, existing_alpha))),
                                 F32_255)
    IN  F32AsU8(F32Min(final_alpha, F32_255))

\* the coverage the glyph has for the canvas pixel (cx, cy), 0 where the
\* glyph has no pixel for it (the two loops of draw.rs:183-194)
Coverage(metrics, glyph_x, glyph_y, cx, cy) ==
    LET gx == cx - glyph_x
        gy == cy - glyph_y
    IN  IF 0 <= gx /\ gx < metrics.width /\ 0 <= gy /\ gy < metrics.height
        THEN metrics.bitmap[gy * metrics.width + gx + 1]
        ELSE 0

\* the byte offsets of the pixels one glyph writes
GlyphWrites(cv, metrics, glyph_x, glyph_y) ==
    { idx \in { (cy * cv.width + cx) * 4 :
                    cx \in 0 .. cv.width - 1, cy \in 0 .. cv.height - 1 } :
        /\ Coverage(metrics, glyph_x, glyph_y,
                    (idx \div 4) % cv.width, (idx \div 4) \div cv.width) # 0
        /\ IdxInBuffer(idx, Len(cv.buffer)) }

\* the buffer after one glyph is rendered at (glyph_x, glyph_y)
RenderGlyph(cv, metrics, glyph_x, glyph_y, color) ==
    LET written == GlyphWrites(cv, metrics, glyph_x, glyph_y)
    IN  [i \in 1 .. Len(cv.buffer) |->
            LET idx   == ((i - 1) \div 4) * 4
                ch    == (i - 1) % 4
                alpha == Coverage(metrics, glyph_x, glyph_y,
                                  (idx \div 4) % cv.width, (idx \div 4) \div cv.width)
            IN  IF idx \notin written THEN cv.buffer[i]
                ELSE IF ch < 3 THEN BlendChannel(cv.buffer[i], color[ch + 1], alpha)
                ELSE BlendAlpha(cv.buffer[i], color[4], alpha)]

\* Canvas::draw_text from the i-th character of the text on
RECURSIVE DrawTextFrom(_, _, _, _, _, _, _)
DrawTextFrom(s, text, i, cursor_x, y, color, size) ==
    IF i > Len(text) THEN s
    ELSE LET metrics == rasterize(text[i], size)
             glyph_x == cursor_x + metrics.xmin
             glyph_y == y + metrics.ymin
             next_x  == Advance(metrics, cursor_x)
             entry   == [c |-> text[i], metrics |-> metrics, before |-> cursor_x,
                         after |-> next_x]
             s1      == [s EXCEPT !.glyphs = Append(@, entry)]
         IN  IF NonRenderable(metrics)
             THEN DrawTextFrom(s1, text, i + 1, next_x, y, color, size)
             ELSE DrawTextFrom(
                     [s1 EXCEPT !.canvas.buffer =
                                    RenderGlyph(s.canvas, metrics, glyph_x, glyph_y,
                                                color),
                                !.writes = @ \cup GlyphWrites(s.canvas, metrics,
                                                              glyph_x, glyph_y)],
                     text, i + 1, next_x, y, color, size)

\* Canvas::draw_text
draw_text(s, x, y, text, color, size) == DrawTextFrom(s, text, 1, x, y, color, size)

-----------------------------------------------------------------------------
(* SpecText: draw_text on a canvas of one colour, for texts of the font's    *)
(* glyphs, at positions on and off the canvas                                *)

\* most characters of a text
MaxTextLen == 2
\* the size the texts are drawn at, the one SystemFont's glyphs are for
TextSize == F32FromInt(16)
\* the texts
Texts == UNION { [1 .. n -> DOMAIN SystemFont] : n \in 0 .. MaxTextLen }
\* where the text starts
TextOrigins == { -1, 0, 2 }
\* the colour of the text, [b, g, r, a]
TextColors == { <<3, 3, 3, 255>>, <<255, 0, 128, 200>>, <<0, 255, 77, 0>> }
\* the colour the canvas has before the text is drawn
Backgrounds == { <<3, 3, 3, 255>>, <<200, 10, 90, 255>>, <<0, 255, 128, 255>>,
                 <<10, 20, 30, 128>> }
\* the canvases of SpecText: width and height of each
TextCanvasSizes == { <<4, 3>>, <<2, 1>> }

\* a canvas whose pixels all have one colour
Canvas_of(w, h, color) ==
    [width |-> w, height |-> h,
     buffer |-> [i \in 1 .. w * h * 4 |-> color[((i - 1) % 4) + 1]]]

InitText ==
    /\ modules = <<>>
    /\ module_areas = EmptyMap
    /\ external_libs = <<>>
    /\ config = NotchConfig_default
    /\ width = 300
    /\ height = 40
    /\ configured = FALSE
    /\ expanded = FALSE
    /\ layer_surface = TRUE
    /\ buffer_drawn = FALSE
    /\ last_draw = None
    /\ init_calls = <<>>
    /\ draw_calls = <<>>
    /\ event_calls = <<>>
    /\ lib_calls = <<>>
    /\ area_uses = <<>>
    /\ frames = <<>>
    /\ disposals = <<>>
    /\ \E size \in TextCanvasSizes, color \in Backgrounds :
          canvas = Canvas_of(size[1], size[2], color)
    /\ writes = {}
    /\ since_performed = None
    /\ glyphs = <<>>
    /\ requests = <<>>
    /\ op = Op("Canvas::new", None, None, None, "()")

DrawText(x, y, text, color) ==
    /\ op.name = "Canvas::new"
    /\ LET s == draw_text(Start(Calm), x, y, text, color, TextSize)
       IN  Commit(s, Op("draw_text", None, None,
                        Some([x |-> x, y |-> y, text |-> text, color |-> color,
                              before |-> canvas]), "()"))

NextText ==
    \E x \in TextOrigins, y \in TextOrigins, text \in Texts, color \in TextColors :
        DrawText(x, y, text, color)

SpecText == InitText /\ [][NextText]_vars

-----------------------------------------------------------------------------
(* ClockModule::draw (src/modules/clock.rs:90-109)                           *)

\* the fields of a ClockModule that its draw reads
Clock(color, font_size, background_color) ==
    [color |-> color, font_size |-> font_size, background_color |-> background_color]

\* two digits, `{:02}`
TwoDigits(n) == <<DigitChars[(n \div 10) + 1], DigitChars[(n % 10) + 1]>>

\* ClockModule::get_current_time, `now` the seconds since the epoch
get_current_time(now) ==
    TwoDigits((now \div 3600) % 24) \o <<":">> \o TwoDigits((now \div 60) % 60)
        \o <<":">> \o TwoDigits(now % 60)

\* the literal 0.8 as an f32
F32_0_8 == F32DivInts(4, 5)

\* ClockModule::draw
ClockModule_draw(s, clock, area, now, overflow_checks) ==
    LET s1        == IF clock.background_color[4] > 0
                     THEN fill_rect(s, area.x, area.y, area.width, area.height,
                                    clock.background_color, overflow_checks)
                     ELSE s
        time_str  == get_current_time(now)
        height_f  == F32FromInt(area.height)
        font_size == F32Min(clock.font_size, F32Mul(height_f, F32_0_8))
        y_pos     == area.y + F32AsI32(F32Half(F32Sub(height_f, font_size)))
    IN  IF s1.ret = "panic" THEN s1
        ELSE draw_text(s1, area.x + 10, y_pos, time_str, clock.color, font_size)

-----------------------------------------------------------------------------
(* SpecClock: the clock drawn into an area of a canvas of one colour         *)

\* the canvases of SpecClock: width and height of each
ClockCanvasSizes == { <<20, 3>>, <<14, 2>> }
\* the clocks: white on nothing as ClockModule::new makes it, and what init
\* makes of a table with a font size and a background colour
Clocks == { Clock(<<255, 255, 255, 255>>, F32FromInt(16), <<0, 0, 0, 0>>),
            Clock(<<255, 255, 255, 255>>, F32Round(5, -1), <<10, 20, 30, 40>>) }
\* the areas the clock is given
ClockAreas == { Rect(x, 0, w, h) : x \in {0, 2}, w \in {12, 18, 20}, h \in {2, 3} }
\* the time of the draw, seconds since the epoch: 00:00:00 and 12:34:56
ClockTimes == { 0, 45296 }

InitClock ==
    /\ modules = <<>>
    /\ module_areas = EmptyMap
    /\ external_libs = <<>>
    /\ config = NotchConfig_default
    /\ width = 300
    /\ height = 40
    /\ configured = FALSE
    /\ expanded = FALSE
    /\ layer_surface = TRUE
    /\ buffer_drawn = FALSE
    /\ last_draw = None
    /\ init_calls = <<>>
    /\ draw_calls = <<>>
    /\ event_calls = <<>>
    /\ lib_calls = <<>>
    /\ area_uses = <<>>
    /\ frames = <<>>
    /\ disposals = <<>>
    /\ \E size \in ClockCanvasSizes :
          canvas = Canvas_of(size[1], size[2], <<200, 10, 90, 255>>)
    /\ writes = {}
    /\ since_performed = None
    /\ glyphs = <<>>
    /\ requests = <<>>
    /\ op = Op("Canvas::new", None, None, None, "()")

ClockDraw(clock, area, now, overflow_checks) ==
    /\ op.name = "Canvas::new"
    /\ LET s == ClockModule_draw(Start(Calm), clock, area, now, overflow_checks)
       IN  Commit(s, Op("ClockModule::draw", None, None,
                        Some([clock |-> clock, area |-> area, now |-> now,
                              overflow_checks |-> overflow_checks,
                              before |-> canvas]), s.ret))

NextClock ==
    \E clock \in Clocks, area \in ClockAreas, now \in ClockTimes,
       overflow_checks \in BOOLEAN :
        ClockDraw(clock, area, now, overflow_checks)

SpecClock == InitClock /\ [][NextClock]_vars

-----------------------------------------------------------------------------
(* SpecRows: the layout engine over rows of several modules per bucket,      *)
(* several rows, and rows wider and narrower than their modules              *)

\* per-module state configurations: "l", "l2" left, "r", "r2" right, "h"
\* hidden, every other id with the defaults (visible, centred)
RowStates ==
    [l |-> Aligned("left"), l2 |-> Aligned("left"),
     r |-> Aligned("right"), r2 |-> Aligned("right"), h |-> Hidden]

\* the rows of a layout, the same in both states
StackedRowChoices ==
    { << Row(<<"l", "l2", "c", "r", "r2">>) >>,
      << Row(<<"l2", "l">>), Row(<<"r2", "r">>) >>,
      << Row(<<"l", "c">>), Row(<<"h">>), Row(<<"r", "d">>) >>,
      << Row(<<"l", "missing", "l2">>), Row(<<"c", "d", "r">>) >>,
      << Row(<<"r", "r2", "l">>), Row(<<>>), Row(<<"c">>) >>,
      << Row(<<"l", "l2">>), Row(<<"d">>) >>,
      << Row(<<"d">>), Row(<<"l", "l2", "r2">>) >> }

\* a configuration of that width and those rows; the expanded state has its
\* own row spacing
StackedView(w, rows) == [LayoutView(w, rows) EXCEPT !.state = RowStates]

StackedConfigs ==
    { NotchConfig(<<>>, EmptyMap, EmptyMap, StackedView(w, rows)) :
          w \in LayoutWidths, rows \in StackedRowChoices }

\* the registries: modules of several widths and heights
StackedModuleLists ==
    LET L  == PluginModule("l", <<50, 20>>)
        L2 == PluginModule("l2", <<70, 28>>)
        R  == PluginModule("r", <<60, 20>>)
        R2 == PluginModule("r2", <<45, 22>>)
        C  == PluginModule("c", <<40, 20>>)
        D  == PluginModule("d", <<70, 25>>)
        H  == PluginModule("h", <<30, 10>>)
    IN  { <<>>, <<L, L2, R, R2, C, D, H>>, <<L2, L, R2, R>>, <<L, R, C>>,
          <<C, D, R2, L2>>, <<H, D, L, L2>> }

NextRows ==
    \E mods \in StackedModuleLists, c \in StackedConfigs, exp \in BOOLEAN :
        RegistryOf(mods, c, exp)

SpecRows == Init /\ [][NextRows]_vars

-----------------------------------------------------------------------------
(* Claims *)

\* ids of the loaded modules
LoadedIds == {modules[i].id : i \in 1..Len(modules)}

\* the indices of the modules that have an area, in registration order
RECURSIVE IdxWithArea(_, _, _)
IdxWithArea(mods, areas, i) ==
    IF i > Len(mods) THEN <<>>
    ELSE (IF mods[i].id \in DOMAIN areas THEN <<i>> ELSE <<>>)
         \o IdxWithArea(mods, areas, i + 1)

\* the point lies in [area.x, area.x+width) x [area.y, area.y+height)
Inside(area, x, y) ==
    /\ area.x <= x /\ x < area.x + area.width
    /\ area.y <= y /\ y < area.y + area.height

\* the indices of the modules whose area contains the point of the event
Containing(event) ==
    { i \in 1..Len(modules) :
        /\ modules[i].id \in DOMAIN module_areas
        /\ Inside(module_areas[modules[i].id], event.x, event.y) }

\* C1: whenever ModuleRegistry::draw or ModuleRegistry::handle_event runs,
\* the area map it reads is the layout of the configuration, the loaded
\* modules and the expansion state of that moment.
C1_AreaMapIsCurrentLayout ==
    \A k \in 1..Len(area_uses) :
        area_uses[k].areas =
            calculate_module_layout(area_uses[k].config, area_uses[k].modules,
                                    area_uses[k].expanded)

\* C2: in every reachable state of the registry the ids of the area map are
\* ids of loaded modules.
C2_AreaIdsAreLoaded == DOMAIN module_areas \subseteq LoadedIds

\* C3: a positional event goes to the first module in registration order
\* whose area contains the point, and to no other; handle_event returns that
\* module's answer, and false without any delivery when no area contains
\* the point.
C3_FirstContainingOnly ==
    (op.name = "handle_event" /\ op.event[1].kind \in PositionalKinds) =>
        LET event == op.event[1]
            hits  == Containing(event)
        IN  IF hits = {}
            THEN event_calls = <<>> /\ op.ret = "false"
            ELSE LET first == CHOOSE i \in hits : \A j \in hits : i <= j
                 IN  /\ Len(event_calls) = 1
                     /\ event_calls[1].idx = first
                     /\ event_calls[1].area = module_areas[modules[first].id]
                     /\ op.ret = BoolStr(module_handle_event(modules[first], event,
                                                             event_calls[1].area))

\* C3 witness: two areas contain the point of a press; the first module
\* declines it and the second, which would consume it, is not asked.
C3_Witness ==
    /\ op.name = "handle_event"
    /\ op.event[1].kind = "Press"
    /\ Cardinality(Containing(op.event[1])) = 2
    /\ Len(event_calls) = 1
    /\ op.ret = "false"
    /\ \E j \in Containing(op.event[1]) :
          module_handle_event(modules[j], op.event[1], module_areas[modules[j].id])

\* C4: a non-positional event goes to the modules that have an area, in
\* registration order, up to and including the first that reports it handled
\* (to all of them if none does); modules without an area do not get it.
C4_BroadcastUntilHandled ==
    (op.name = "handle_event" /\ op.event[1].kind \notin PositionalKinds) =>
        LET want == IdxWithArea(modules, module_areas, 1)
            n    == Len(event_calls)
        IN  /\ n <= Len(want)
            /\ \A k \in 1..n : event_calls[k].idx = want[k]
            /\ \A k \in 1..n : k < n => ~event_calls[k].ret
            /\ n < Len(want) => (n >= 1 /\ event_calls[n].ret)
            /\ op.ret = BoolStr(n >= 1 /\ event_calls[n].ret)

\* C4 witness: a broadcast passes a module that declines and stops at the
\* second, which handles it.
C4_Witness ==
    /\ op.name = "handle_event"
    /\ op.event[1].kind = "UpdateExpanded"
    /\ Len(event_calls) = 2
    /\ ~event_calls[1].ret
    /\ event_calls[2].ret
    /\ op.ret = "true"

\* C5: draw calls draw on the modules that have an area, in registration
\* order, goes on after a module's error, returns no error and leaves the
\* registry as it was.
C5_DrawEveryModuleWithArea ==
    [][ op'.name = "draw" =>
          /\ UNCHANGED <<modules, module_areas, external_libs>>
          /\ op'.ret = "()"
          /\ LET want == IdxWithArea(modules, module_areas, 1)
             IN  /\ Len(draw_calls') = Len(want)
                 /\ \A k \in 1..Len(want) :
                       /\ draw_calls'[k].idx = want[k]
                       /\ draw_calls'[k].area = module_areas[modules[want[k]].id] ]_vars

\* C5 witness: a module's draw fails and the draw of a later module is
\* still called.
C5_Witness ==
    /\ op.name = "draw"
    /\ \E k \in 1..Len(draw_calls) : ~draw_calls[k].ok /\ k < Len(draw_calls)

\* C6: when a reload removes an id from the enabled list, the area map after
\* the reload has no entry for the id and the reload's draw does not draw a
\* module of that id.
C6_RemovedIdHasNoArea ==
    [][ op'.name = "reload_config" =>
          \A id \in Range(config.modules.enabled) \ Range(config'.modules.enabled) :
              /\ id \notin DOMAIN module_areas'
              /\ \A k \in 1..Len(draw_calls') : draw_calls'[k].id # id ]_vars

\* C7: after load_modules_from_config(config) every loaded module has an id
\* of the enabled list, and an enabled "clock" is loaded exactly once.
C7_LoadedAreEnabled ==
    op.name = "load_modules_from_config" =>
        LET enabled == Range(op.config[1].modules.enabled)
        IN  /\ LoadedIds \subseteq enabled
            /\ "clock" \in enabled =>
                  Cardinality({i \in 1..Len(modules) : modules[i].id = "clock"}) = 1

\* whether the enabled id resolves to a module: through the alias table or
\* the "external:" prefix to a library that loads, or else as the built-in
Resolves(c, id) ==
    IF id \in DOMAIN c.modules.aliases
    THEN LibraryNew(c.modules.aliases[id]) /\ LibraryGetCreateModule(c.modules.aliases[id])
    ELSE IF IsSome(strip_prefix_external(id))
    THEN LibraryNew(strip_prefix_external(id)[1])
         /\ LibraryGetCreateModule(strip_prefix_external(id)[1])
    ELSE id = "clock"

\* the library an enabled id names ("builtin" for none)
LibraryOf(c, id) ==
    IF id \in DOMAIN c.modules.aliases THEN c.modules.aliases[id]
    ELSE IF IsSome(strip_prefix_external(id)) THEN strip_prefix_external(id)[1]
    ELSE "builtin"

\* C8: an unknown id and a plugin that fails to load are skipped: every
\* enabled id that does resolve has its module loaded, and the load returns
\* an error only when a module's init failed.
C8_UnresolvedIdsAreSkipped ==
    op.name = "load_modules_from_config" =>
        LET c == op.config[1]
        IN  /\ \A id \in Range(c.modules.enabled) :
                  Resolves(c, id) =>
                      \E i \in 1..Len(modules) :
                          modules[i].id = id \/ modules[i].lib = LibraryOf(c, id)
            /\ op.ret = "Err" => \E k \in 1..Len(init_calls) : ~init_calls[k].ok

\* C8 witness: the library of the first enabled id is not found, the clock
\* that follows it is loaded and the load returns Ok.
C8_Witness ==
    /\ op.name = "load_modules_from_config"
    /\ \E k \in 1..Len(lib_calls) : lib_calls[k].result = "not found"
    /\ op.config[1].modules.enabled = <<"weather", "clock">>
    /\ LoadedIds = {"clock"}
    /\ op.ret = "Ok"

\* C9: a failing init does not end the pass: every loaded module that has a
\* configuration table receives its init call.
C9_InitGoesOnAfterError ==
    op.name = "load_modules_from_config" =>
        \A j \in 1..Len(modules) :
            modules[j].id \in DOMAIN op.config[1].modules.module_configs =>
                \E k \in 1..Len(init_calls) : init_calls[k].idx = j

\* C10: every loaded module receives init: with its table when the
\* configuration has one, with an empty table otherwise.
C10_EveryModuleInitialised ==
    op.name = "load_modules_from_config" =>
        \A j \in 1..Len(modules) :
            \E k \in 1..Len(init_calls) :
                /\ init_calls[k].idx = j
                /\ init_calls[k].table =
                      (IF modules[j].id \in DOMAIN op.config[1].modules.module_configs
                       THEN op.config[1].modules.module_configs[modules[j].id]
                       ELSE "empty")

\* C11: init is called at most once on a module instance: no init call of a
\* load reaches an instance that an earlier load already initialised.
C11_InitAtMostOnce ==
    op.name = "load_modules_from_config" =>
        \A k \in 1..Len(init_calls) : ~init_calls[k].again

\* the handles of library `path` among `libs`
HandlesOf(libs, path) == Cardinality({i \in 1..Len(libs) : libs[i] = path})

\* the releases of library `path` among the disposals `d`
ReleasesOf(d, path) ==
    Cardinality({k \in 1..Len(d) : d[k].kind = "library" /\ d[k].lib = path})

\* C12: a library handle is released only when the registry holds no module
\* constructed from that library, in loads, reloads that remove modules and
\* the drop of the registry; and a handle leaves external_libs only by such
\* a release.
C12_LibraryOutlivesItsModules ==
    [][ /\ \A k \in 1..Len(disposals') :
              disposals'[k].kind = "library" =>
                  \A i \in 1..Len(disposals'[k].held) :
                      disposals'[k].held[i].lib # disposals'[k].lib
        /\ \A path \in Range(external_libs) :
              HandlesOf(external_libs, path) - HandlesOf(external_libs', path)
                  <= ReleasesOf(disposals', path) ]_vars

\* C12 witness: the registry is dropped while it holds a plugin module; the
\* module is destroyed first and its library released after it.
C12_Witness ==
    /\ op.name = "drop"
    /\ \E j, k \in 1..Len(disposals) :
          /\ j < k
          /\ disposals[j].kind = "module" /\ disposals[j].lib = "pa"
          /\ disposals[k].kind = "library" /\ disposals[k].lib = "pa"

\* C13: a plugin module and its library handle go together, module first:
\* the release of the library follows the disposal of the module at once,
\* and the registry retains as many handles as it holds plugin modules.
C13_HandleGoesWithModule ==
    /\ Len(external_libs) =
          Cardinality({i \in 1..Len(modules) : modules[i].lib # "builtin"})
    /\ \A k \in 1..Len(disposals) :
          (disposals[k].kind = "module" /\ disposals[k].lib # "builtin") =>
              /\ k < Len(disposals)
              /\ disposals[k + 1].kind = "library"
              /\ disposals[k + 1].lib = disposals[k].lib

\* C14: calculate_layout replaces the area map as a whole: the map after it
\* is the layout engine's output for its arguments and the loaded modules,
\* no entry of the old map outlives it unless the new layout has it, and the
\* map a draw or an event dispatch reads is the whole map of the state it
\* started in, which it leaves alone.
C14_LayoutReplacesWholeMap ==
    [][ /\ op'.name = "calculate_layout" =>
              LET new == calculate_module_layout(op'.config[1], modules, op'.expanded[1])
              IN  /\ module_areas' = new
                  /\ \A id \in (DOMAIN module_areas) \ (DOMAIN new) :
                        id \notin DOMAIN module_areas'
        /\ op'.name \in {"draw", "handle_event"} =>
              /\ module_areas' = module_areas
              /\ \A k \in 1..Len(area_uses') : area_uses'[k].areas = module_areas ]_vars

\* C14 witness: a collapsed layout pass over the clock and the plugin: the
\* map holds the clock alone, the plugin's area of the expanded layout is
\* not in it.
C14_Witness ==
    /\ op.name = "calculate_layout"
    /\ op.expanded = Some(FALSE)
    /\ {"clock", "weather"} \subseteq LoadedIds
    /\ "weather" \in DOMAIN calculate_module_layout(op.config[1], modules, TRUE)
    /\ DOMAIN module_areas = {"clock"}

\* pairs of loaded modules that report the same id, the second the last of
\* that id, where the id has an area
SameIdPairs ==
    { p \in (1..Len(modules)) \X (1..Len(modules)) :
        /\ p[1] < p[2]
        /\ modules[p[1]].id = modules[p[2]].id
        /\ \A k \in 1..Len(modules) : modules[k].id = modules[p[2]].id => k <= p[2]
        /\ modules[p[2]].id \in DOMAIN module_areas }

\* the size of an area
SizeOf(area) == <<area.width, area.height>>

\* C15 as claimed: of two loaded modules of one id the last registered
\* determines the area of the id, and a broadcast reaches both.
C15_LastRegisteredWinsArea ==
    /\ op.name = "calculate_layout" =>
          \A p \in SameIdPairs :
              SizeOf(module_areas[modules[p[2]].id]) = preferred_size(modules[p[2]])
    /\ (op.name = "handle_event" /\ op.event[1].kind \notin PositionalKinds) =>
          \A p \in SameIdPairs :
              {p[1], p[2]} \subseteq {event_calls[k].idx : k \in 1..Len(event_calls)}

\* C15 as amended: of the loaded modules of one id the first registered
\* determines the area of the id (its preferred size), and a broadcast
\* reaches both unless a module registered before the second reports the
\* event handled.
C15_FirstRegisteredWinsArea ==
    /\ op.name = "calculate_layout" =>
          \A p \in SameIdPairs :
              LET first == CHOOSE i \in 1..Len(modules) :
                               /\ modules[i].id = modules[p[1]].id
                               /\ \A j \in 1..Len(modules) :
                                     modules[j].id = modules[i].id => i <= j
              IN  SizeOf(module_areas[modules[p[1]].id]) = preferred_size(modules[first])
    /\ (op.name = "handle_event" /\ op.event[1].kind \notin PositionalKinds) =>
          \A p \in SameIdPairs :
              \/ {p[1], p[2]} \subseteq {event_calls[k].idx : k \in 1..Len(event_calls)}
              \/ \E k \in 1..Len(event_calls) :
                    event_calls[k].ret /\ event_calls[k].idx < p[2]

\* C15 witness: the built-in clock and a plugin of the same id and another
\* size are loaded, the area of the id has the size of the clock, registered
\* first, and a broadcast that the clock declines has reached both.
C15_Witness ==
    /\ op.name = "handle_event"
    /\ op.event[1].kind = "UpdateCollapsed"
    /\ Len(modules) = 2
    /\ <<1, 2>> \in SameIdPairs
    /\ preferred_size(modules[1]) # preferred_size(modules[2])
    /\ SizeOf(module_areas[modules[1].id]) = preferred_size(modules[1])
    /\ Len(event_calls) = 2

\* the rectangle and the colour fill_rect was called with
FillArgs == op.event[1]

\* the columns and rows of the canvas
Columns == 0 .. canvas.width - 1
Rows == 0 .. canvas.height - 1

\* C16: whatever the rectangle (origins below zero, extents past the canvas)
\* and whatever the canvas, every write of fill_rect lies within the buffer
\* of width * height * 4 bytes, on a pixel of [0, width) x [0, height)
C16_FillRectStaysInside ==
    op.name = "fill_rect" =>
        /\ Len(canvas.buffer) = canvas.width * canvas.height * 4
        /\ \A idx \in writes :
              /\ 0 <= idx /\ idx + 3 < Len(canvas.buffer)
              /\ (idx \div 4) % canvas.width \in Columns
              /\ (idx \div 4) \div canvas.width \in Rows

\* a rectangle that starts above and left of the canvas and ends below and
\* right of it, and that fill_rect drew
C16_Witness ==
    /\ op.name = "fill_rect"
    /\ FillArgs.x < 0 /\ FillArgs.y < 0
    /\ FillArgs.x + FillArgs.width > canvas.width
    /\ FillArgs.y + FillArgs.height > canvas.height
    /\ FillArgs.width <= I32Max /\ FillArgs.height <= I32Max
    /\ writes # {}

\* the canvas as it was before the operation
Fresh == Canvas_new(canvas.width, canvas.height)

\* whether the pixel (px, py) lies in the rectangle fill_rect was called with
InRect(px, py) ==
    /\ FillArgs.x <= px /\ px < FillArgs.x + FillArgs.width
    /\ FillArgs.y <= py /\ py < FillArgs.y + FillArgs.height

\* C17: fill_rect writes the colour, verbatim, into exactly the pixels of the
\* intersection of the rectangle with the canvas and leaves every other pixel
\* as it was; where the intersection is empty (no width, no height, or the
\* rectangle wholly left of, above, right of or below the canvas) no pixel
\* changes
C17_FillRectFillsIntersection ==
    op.name = "fill_rect" =>
        \A px \in Columns, py \in Rows :
            PixelAt(canvas, px, py) =
                IF InRect(px, py) THEN FillArgs.color ELSE PixelAt(Fresh, px, py)

\* the radius and the colour the background fill was called with
RoundedArgs == op.event[1]

\* whether the pixel (px, py) lies outside the circle of radius r about the
\* rounding centre of the left corner, (r, height - r), and of the right
\* corner, (width - r, height - r)
BeyondLeftCorner(px, py, r) ==
    (r - px) * (r - px) + (py - (canvas.height - r)) * (py - (canvas.height - r))
        > r * r
BeyondRightCorner(px, py, r) ==
    (px - (canvas.width - r)) * (px - (canvas.width - r))
        + (py - (canvas.height - r)) * (py - (canvas.height - r)) > r * r

\* the pixels the rounding takes away: in the bottom r rows, within r columns
\* of the left or of the right edge, and beyond the circle of that corner
Rounded(px, py, r) ==
    /\ py >= canvas.height - r
    /\ \/ px < r /\ BeyondLeftCorner(px, py, r)
       \/ px >= canvas.width - r /\ BeyondRightCorner(px, py, r)

\* C18: with expanded = true and radius r > 0 the background fill makes a
\* pixel fully transparent (four bytes 0) exactly when it lies in the bottom r
\* rows, within r columns of the left or right edge, and at a squared distance
\* greater than r * r from that corner's rounding centre; every other pixel,
\* one at squared distance exactly r * r included, gets the colour
C18_RoundedCornersAreTransparent ==
    (/\ op.name = "fill_canvas_with_rounded_corners"
     /\ op.expanded = Some(TRUE)
     /\ RoundedArgs.corner_radius > 0) =>
        \A px \in Columns, py \in Rows :
            PixelAt(canvas, px, py) =
                IF Rounded(px, py, RoundedArgs.corner_radius)
                THEN <<0, 0, 0, 0>>
                ELSE RoundedArgs.color

\* C19: with expanded = false or radius 0 the background fill gives every
\* pixel of the canvas the colour, whatever its position, the width, the
\* height and the radius
C19_FlatFillWhenCollapsedOrNoRadius ==
    (/\ op.name = "fill_canvas_with_rounded_corners"
     /\ op.expanded = Some(FALSE) \/ RoundedArgs.corner_radius = 0) =>
        \A px \in Columns, py \in Rows :
            PixelAt(canvas, px, py) = RoundedArgs.color

\* a collapsed fill with a radius that would round a pixel away, were the
\* notch expanded, and that pixel has the colour
C19_Witness ==
    /\ op.name = "fill_canvas_with_rounded_corners"
    /\ op.expanded = Some(FALSE)
    /\ RoundedArgs.corner_radius > 0
    /\ \E px \in Columns, py \in Rows :
          /\ Rounded(px, py, RoundedArgs.corner_radius)
          /\ PixelAt(canvas, px, py) = RoundedArgs.color

\* the configuration and the state the last layout pass was given: its rows,
\* the width of a row and the per-module state configuration of an id
LaidOutRows ==
    (IF op.expanded[1] THEN op.config[1].layout.expanded
     ELSE op.config[1].layout.collapsed).rows
RowWidth == style_for(op.config[1], op.expanded[1]).width
StateOf(id) == StateCfg(op.config[1], id, op.expanded[1])

\* the ids of a row that are visible, loaded and neither left nor right
\* aligned, in row order
CentreIds(row) ==
    SelectSeq(row.modules,
              LAMBDA id : /\ UnwrapOr(StateOf(id).visible, TRUE)
                          /\ id \in LoadedIds
                          /\ UnwrapOr(StateOf(id).alignment, "center")
                                 \notin {"left", "right"})

\* the preferred width of the loaded module of that id
PreferredWidth(id) == preferred_size(FindModule(modules, id)[1])[1]

\* the preferred widths of ids[1 .. n] and a gap of 8 after each
RECURSIVE WidthsAndGaps(_, _)
WidthsAndGaps(ids, n) ==
    IF n = 0 THEN 0 ELSE WidthsAndGaps(ids, n - 1) + PreferredWidth(ids[n]) + 8

\* C20: in each row the centre-aligned visible loaded modules stand left to
\* right, 8 apart, from x = max(0, (row width - total) / 2), total being the
\* sum of their preferred widths + 8 * (count - 1) (asserted of every id in
\* the last row that names it, whose area is the one the map keeps); and in
\* a row of width 300 with a left module (50,20), a right module (60,20) and
\* a centre module (40,20) the left one is at x = 0, the right one at x = 240
\* and the centre one at x = 130
C20_CentreBucketPlacement ==
    op.name = "calculate_layout" =>
        /\ \A k \in 1..Len(LaidOutRows) :
              LET ids   == CentreIds(LaidOutRows[k])
                  total == WidthsAndGaps(ids, Len(ids)) - 8
                  start == Max2((RowWidth - total) \div 2, 0)
              IN  \A j \in 1..Len(ids) :
                     (\A k2 \in (k + 1)..Len(LaidOutRows) :
                          ids[j] \notin Range(LaidOutRows[k2].modules))
                     => /\ ContainsKey(module_areas, ids[j])
                        /\ module_areas[ids[j]].x = start + WidthsAndGaps(ids, j - 1)
                        /\ module_areas[ids[j]].width = PreferredWidth(ids[j])
        /\ (/\ RowWidth = 300
            /\ LaidOutRows = << Row(<<"l", "r", "c">>) >>
            /\ {<<m.id, m.size>> : m \in Range(modules)}
                 = {<<"l", <<50, 20>>>>, <<"r", <<60, 20>>>>, <<"c", <<40, 20>>>>})
           => /\ module_areas["l"].x = 0
              /\ module_areas["r"].x = 240
              /\ module_areas["c"].x = 130

\* the row of the example laid out: the centre module stands at 130, between
\* the left module at 0 and the right module at 240
C20_Witness ==
    /\ op.name = "calculate_layout"
    /\ RowWidth = 300
    /\ LaidOutRows = << Row(<<"l", "r", "c">>) >>
    /\ LoadedIds = {"l", "r", "c"}
    /\ module_areas["c"] = Rect(130, 0, 40, 20)
    /\ module_areas["l"].x = 0 /\ module_areas["r"].x = 240

\* the ids of a row that are visible and loaded (the modules the row places),
\* and those of them with that alignment, in row order
PlacedIds(row) ==
    SelectSeq(row.modules,
              LAMBDA id : UnwrapOr(StateOf(id).visible, TRUE) /\ id \in LoadedIds)
AlignedIds(row, al) ==
    SelectSeq(PlacedIds(row),
              LAMBDA id : UnwrapOr(StateOf(id).alignment, "center") = al)

\* the preferred height of the loaded module of that id
PreferredHeight(id) == preferred_size(FindModule(modules, id)[1])[2]

\* the greatest preferred height among ids[1 .. n], 0 if there is none
RECURSIVE TallestOf(_, _)
TallestOf(ids, n) ==
    IF n = 0 THEN 0 ELSE Max2(TallestOf(ids, n - 1), PreferredHeight(ids[n]))

\* the row spacing of the laid out state: the configured one, otherwise 8
RowSpacing ==
    UnwrapOr((IF op.expanded[1] THEN op.config[1].layout.expanded
              ELSE op.config[1].layout.collapsed).row_spacing, 8)

\* the top offset of row k: 0 for the first row, and for each next row the
\* offset of the row before it, plus its tallest placed module, plus the
\* row spacing
RECURSIVE RowTop(_)
RowTop(k) ==
    IF k = 1 THEN 0
    ELSE RowTop(k - 1)
         + TallestOf(PlacedIds(LaidOutRows[k - 1]), Len(PlacedIds(LaidOutRows[k - 1])))
         + RowSpacing

\* whether row k is the last row that names the id: its area is the one the
\* map keeps
LastRowOf(id, k) ==
    \A k2 \in (k + 1)..Len(LaidOutRows) : id \notin Range(LaidOutRows[k2].modules)

\* C21: in each row the left-aligned visible loaded modules stand in row
\* order from x = 0, each at the x of the one before it plus that one's
\* preferred width plus 8, and each at the y of the row's top offset
C21_LeftBucketPlacement ==
    op.name = "calculate_layout" =>
        \A k \in 1..Len(LaidOutRows) :
            LET ids == AlignedIds(LaidOutRows[k], "left")
            IN  \A j \in 1..Len(ids) :
                    LastRowOf(ids[j], k) =>
                        /\ ContainsKey(module_areas, ids[j])
                        /\ module_areas[ids[j]].x = WidthsAndGaps(ids, j - 1)
                        /\ module_areas[ids[j]].y = RowTop(k)

\* two left-aligned modules in the second row of a layout: the second stands
\* 8 after the first, both below the first row
C21_Witness ==
    /\ op.name = "calculate_layout"
    /\ Len(LaidOutRows) >= 2
    /\ AlignedIds(LaidOutRows[1], "left") = <<>>
    /\ PlacedIds(LaidOutRows[1]) # <<>>
    /\ Len(AlignedIds(LaidOutRows[2], "left")) = 2
    /\ LET ids == AlignedIds(LaidOutRows[2], "left")
       IN  /\ module_areas[ids[1]].x = 0
           /\ module_areas[ids[2]].x = PreferredWidth(ids[1]) + 8
           /\ module_areas[ids[2]].y > 0

\* C22: in each row the right-aligned visible loaded modules are placed from
\* right to left in the order the row lists them: the right edge of the first
\* listed is at the row width, and the right edge of each following one is 8
\* left of the left edge of the one before it
C22_RightBucketInListedOrder ==
    op.name = "calculate_layout" =>
        \A k \in 1..Len(LaidOutRows) :
            LET ids == AlignedIds(LaidOutRows[k], "right")
            IN  \A j \in 1..Len(ids) :
                    LastRowOf(ids[j], k) =>
                        /\ ContainsKey(module_areas, ids[j])
                        /\ module_areas[ids[j]].x + module_areas[ids[j]].width
                              = RowWidth - WidthsAndGaps(ids, j - 1)

\* C23: rows are stacked from top to bottom: the first row is at y = 0 and
\* each next row at the y of the row before it, plus the greatest preferred
\* height among the modules placed in that row (0 if none was placed), plus
\* the row spacing (the configured one, otherwise 8); every module of a row
\* stands at the row's y
C23_RowsAreStacked ==
    op.name = "calculate_layout" =>
        \A k \in 1..Len(LaidOutRows) :
            LET ids == PlacedIds(LaidOutRows[k])
            IN  \A j \in 1..Len(ids) :
                    LastRowOf(ids[j], k) =>
                        /\ ContainsKey(module_areas, ids[j])
                        /\ module_areas[ids[j]].y = RowTop(k)

\* three rows with the configured spacing 4, the second of which places no
\* module: the third row stands at the height of the first plus twice 4
C23_Witness ==
    /\ op.name = "calculate_layout"
    /\ op.expanded = Some(TRUE)
    /\ Len(LaidOutRows) = 3
    /\ PlacedIds(LaidOutRows[1]) # <<>>
    /\ PlacedIds(LaidOutRows[2]) = <<>>
    /\ LaidOutRows[2].modules # <<>>
    /\ \E id \in Range(PlacedIds(LaidOutRows[3])) :
          module_areas[id].y
              = TallestOf(PlacedIds(LaidOutRows[1]), Len(PlacedIds(LaidOutRows[1]))) + 8
    /\ RowSpacing = 4

\* the ids the rows of the laid out state name
ReferencedIds == UNION { Range(LaidOutRows[k].modules) : k \in 1..Len(LaidOutRows) }

\* C24: the layout has an area for an id only if a row of the layout of the
\* current expansion state names the id, a module of that id is loaded and
\* the visibility resolved for the id in that state is true (true by
\* default): a hidden id and an id that is not loaded have no area
C24_AreasOnlyForVisibleLoadedReferenced ==
    op.name = "calculate_layout" =>
        \A id \in DOMAIN module_areas :
            /\ id \in ReferencedIds
            /\ id \in LoadedIds
            /\ UnwrapOr(StateOf(id).visible, TRUE)

\* a layout that gave areas, but none to a loaded id its rows name and the
\* configuration hides, and none to a loaded id no row names
C24_Witness ==
    /\ op.name = "calculate_layout"
    /\ DOMAIN module_areas # {}
    /\ \E id \in ReferencedIds \cap LoadedIds :
          /\ StateOf(id).visible = Some(FALSE)
          /\ id \notin DOMAIN module_areas
    /\ \E id \in LoadedIds \ ReferencedIds :
          /\ UnwrapOr(StateOf(id).visible, TRUE)
          /\ id \notin DOMAIN module_areas

\* the sum of the preferred widths of the ids
WidthsOf(ids) == WidthsAndGaps(ids, Len(ids)) - 8 * Len(ids)

\* C25: in a row whose placed modules have preferred widths that sum to at
\* most the row width, every rectangle of the row (left, centre or right
\* bucket) lies within [0, row width]: no x is negative and no right edge is
\* beyond the row width
C25_RowContainsItsRectangles ==
    op.name = "calculate_layout" =>
        \A k \in 1..Len(LaidOutRows) :
            LET ids == PlacedIds(LaidOutRows[k])
            IN  WidthsOf(ids) <= RowWidth =>
                    \A j \in 1..Len(ids) :
                        LastRowOf(ids[j], k) =>
                            /\ module_areas[ids[j]].x >= 0
                            /\ module_areas[ids[j]].x + module_areas[ids[j]].width
                                  <= RowWidth

\* the loaded modules reduced to what the layout is given of them: the id
\* and the preferred size of each, in registration order
IdsAndSizes ==
    [i \in 1..Len(modules) |->
        [id |-> modules[i].id, size |-> preferred_size(modules[i]),
         lib |-> "", cfg |-> "", init_called |-> FALSE]]

C27_PointerInputIsPositional ==
    (/\ op.name = "pointer_frame"
     /\ layer_surface /\ expanded
     /\ \E i \in 1..Len(modules) : ContainsKey(module_areas, modules[i].id)) =>
        \A i \in 1..Len(op.event[1]) :
            op.event[1][i] \in PositionalKinds =>
                \E k \in 1..Len(event_calls) :
                    event_calls[k].event.kind = op.event[1][i]

\* a step of the timer that asks AppData::draw for a redraw: the surface is
\* configured, its first buffer is drawn and the notch is expanded
TimerAsksForDraw ==
    /\ op'.name = "timer"
    /\ configured /\ buffer_drawn /\ expanded

\* C28: a draw request that arrives less than 16 ms after the last draw that
\* was carried out does nothing (no frame is drawn, no module is drawn, the
\* time of the last draw stays), and a request that arrives 16 ms or more
\* after it goes ahead; so for the request the timer makes
C28_DrawIsDebounced ==
    [][TimerAsksForDraw =>
          /\ IsSome(since_performed) /\ since_performed[1] < DrawIntervalMs
                => frames' = <<>> /\ draw_calls' = <<>> /\ last_draw' = last_draw
          /\ IsSome(since_performed) /\ since_performed[1] >= DrawIntervalMs
                => last_draw' = Some(0)]_vars

\* how far the cursor moved over the i-th glyph of the text drawn
CursorMove(i) == glyphs[i].after - glyphs[i].before

\* C29: draw_text moves the cursor by each glyph's advance width, whether the
\* glyph is rendered or not: a glyph of no width or no height moves it
\* exactly as far as a rendered glyph of the same advance width
C29_CursorMovesByAdvanceWidth ==
    op.name = "draw_text" =>
        /\ \A i \in DOMAIN glyphs :
              CursorMove(i) = F32AsI32(glyphs[i].metrics.advance_width)
        /\ \A i, j \in DOMAIN glyphs :
              /\ NonRenderable(glyphs[i].metrics)
              /\ ~NonRenderable(glyphs[j].metrics)
              /\ glyphs[i].metrics.advance_width = glyphs[j].metrics.advance_width
              => CursorMove(i) = CursorMove(j)

\* the glyphs of the text drawn that have coverage for the canvas pixel
\* (cx, cy)
Coverers(cx, cy) ==
    { i \in DOMAIN glyphs :
        /\ ~NonRenderable(glyphs[i].metrics)
        /\ Coverage(glyphs[i].metrics, glyphs[i].before + glyphs[i].metrics.xmin,
                    op.event[1].y + glyphs[i].metrics.ymin, cx, cy) # 0 }

\* b lies between a and c, whichever of them is larger
Between(a, b, c) == Min2(a, c) <= b /\ b <= Max2(a, c)

\* the pixels of the canvas
CanvasPixels == { <<cx, cy>> : cx \in 0 .. canvas.width - 1,
                               cy \in 0 .. canvas.height - 1 }

\* C30: a glyph pixel of coverage 1..255 blended onto a pixel of alpha 255
\* leaves the alpha at 255 and each of B, G, R between what the pixel had and
\* the text colour's channel; pixels of coverage 0 and pixels off the canvas
\* are not written
C30_BlendStaysBetween ==
    op.name = "draw_text" =>
        LET before == op.event[1].before
            color  == op.event[1].color
        IN  /\ Len(canvas.buffer) = Len(before.buffer)
            /\ \A idx \in writes : idx \div 4 < canvas.width * canvas.height
            /\ \A p \in CanvasPixels :
                  LET was == PixelAt(before, p[1], p[2])
                      now == PixelAt(canvas, p[1], p[2])
                  IN  /\ Coverers(p[1], p[2]) = {}
                         => /\ now = was
                            /\ (p[2] * canvas.width + p[1]) * 4 \notin writes
                      /\ Cardinality(Coverers(p[1], p[2])) = 1 /\ was[4] = 255
                         => /\ now[4] = 255
                            /\ \A ch \in 1 .. 3 : Between(was[ch], now[ch], color[ch])

\* whether the pixel at byte offset idx of the canvas lies in the rectangle
InArea(idx, area) ==
    LET x == (idx \div 4) % canvas.width
        y == (idx \div 4) \div canvas.width
    IN  /\ area.x <= x /\ x < area.x + area.width
        /\ area.y <= y /\ y < area.y + area.height

\* C31: the clock's draw changes only pixels inside the area it was given:
\* neither its background fill nor a glyph pixel of its time text is written
\* outside [area.x, area.x + area.width) x [area.y, area.y + area.height)
C31_ClockDrawsInsideItsArea ==
    op.name = "ClockModule::draw" =>
        LET area   == op.event[1].area
            before == op.event[1].before
        IN  /\ \A idx \in writes : InArea(idx, area)
            /\ \A i \in 1 .. Len(canvas.buffer) :
                  canvas.buffer[i] # before.buffer[i] => InArea(((i - 1) \div 4) * 4, area)

\* the pointer frame just handled changed the expansion state to e, on a
\* configured surface
ExpansionChangedTo(e) ==
    /\ op.name = "pointer_frame"
    /\ \E i \in DOMAIN requests : requests[i] = "set_size"
    /\ configured
    /\ expanded = e

\* a frame rendered for the expansion state e was committed
FrameCommittedFor(e) ==
    \E i \in DOMAIN frames : frames[i].expanded = e /\ frames[i].committed

\* C32: whenever a pointer Enter or Leave changes the expansion state of a
\* configured surface, a frame rendered for the new state is eventually
\* committed (unless the state changes again or the surface is closed first),
\* also when the change comes within 16 ms of the last draw
C32_ExpansionChangeIsDrawn ==
    \A e \in BOOLEAN :
        ExpansionChangedTo(e) ~> (FrameCommittedFor(e) \/ expanded # e \/ ~layer_surface)

\* the ids of a sequence of modules, in order
IdsOf(mods) == [i \in DOMAIN mods |-> mods[i].id]

\* a call of load_modules_from_config that follows a call with the same
\* configuration
SecondLoad ==
    /\ op.name = "load_modules_from_config"
    /\ op'.name = "load_modules_from_config"
    /\ op'.config = op.config

\* C33: load_modules_from_config called twice in a row with the same
\* configuration leaves the sequence of loaded modules as the first call left
\* it and opens no plugin library during the second call
C33_SecondLoadChangesNothing ==
    [][SecondLoad => IdsOf(modules') = IdsOf(modules) /\ lib_calls' = <<>>]_vars

\* where an id first appears in a list of ids
FirstIndex(ids, id) == CHOOSE i \in DOMAIN ids : ids[i] = id /\ \A j \in 1 .. i - 1 : ids[j] # id

\* C34: after load_modules_from_config(config) the loaded modules are
\* registered in the order in which their ids appear in config's enabled
\* list, whatever the registry went through before
C34_RegisteredInEnabledOrder ==
    op.name = "load_modules_from_config" =>
        LET enabled == op.config[1].modules.enabled
            listed  == { i \in DOMAIN modules :
                            \E k \in DOMAIN enabled : enabled[k] = modules[i].id }
        IN  \A i, j \in listed :
                i < j => FirstIndex(enabled, modules[i].id)
                            <= FirstIndex(enabled, modules[j].id)

\* the pixel at column x of row y is transparent
Transparent(x, y) == PixelAt(canvas, x, y) = <<0, 0, 0, 0>>

\* C35: the mask of the rounded corners is mirror-symmetric: with expanded
\* true and a radius r > 0 with 2r <= width, the pixel at (x, y) is
\* transparent exactly if the pixel at (width - 1 - x, y) is
C35_MaskIsMirrorSymmetric ==
    /\ op.name = "fill_canvas_with_rounded_corners"
    /\ op.expanded[1]
    /\ op.event[1].corner_radius > 0
    /\ 2 * op.event[1].corner_radius <= canvas.width
    => \A x \in 0 .. canvas.width - 1, y \in 0 .. canvas.height - 1 :
          Transparent(x, y) <=> Transparent(canvas.width - 1 - x, y)

\* the expansion state after pointer events, e the state before them: the
\* kind of the last Enter or Leave among them, e if there is none
RECURSIVE ExpansionAfter(_, _)
ExpansionAfter(events, e) ==
    IF events = <<>> THEN e
    ELSE LET last == events[Len(events)]
         IN  IF last = "Enter" THEN TRUE
             ELSE IF last = "Leave" THEN FALSE
             ELSE ExpansionAfter(SubSeq(events, 1, Len(events) - 1), e)

\* C36: the notch starts collapsed; after the pointer events of a frame the
\* expansion state is the kind of the last Enter or Leave among them
\* (expanded after Enter, collapsed after Leave) and stays what it was if
\* there is none: Motion, Press and Release never change it, nor does any
\* other handler
C36_ExpansionFollowsEnterAndLeave ==
    /\ ~expanded
    /\ [][IF op'.name = "pointer_frame"
          THEN expanded' = ExpansionAfter(op'.event[1], expanded)
          ELSE expanded' = expanded]_vars

\* a Leave has collapsed a notch that an Enter had expanded
C36_Witness ==
    /\ op.name = "pointer_frame"
    /\ op.event[1][Len(op.event[1])] = "Leave"
    /\ \E i \in DOMAIN requests : requests[i] = "set_size"
    /\ ~expanded

\* C37: while the surface is not configured no frame is produced: whichever
\* handler asks for a draw (a pointer frame, the timer, a reload), nothing is
\* filled, no module is drawn, no buffer is attached or committed, and the
\* time of the last draw stays unset; so it is until configure has run
C37_NoFrameBeforeConfigure ==
    /\ ~configured
    /\ [][~configured /\ op'.name # "configure"
          => /\ frames' = <<>>
             /\ draw_calls' = <<>>
             /\ last_draw' = last_draw
             /\ last_draw = None
             /\ ~configured']_vars

\* a pointer Enter has expanded the notch, and asked for a draw, on a surface
\* that is not configured
C37_Witness ==
    /\ ~configured
    /\ op.name = "pointer_frame"
    /\ expanded
    /\ \E i \in DOMAIN requests : requests[i] = "set_input_region"

\* C38: the setup that configure triggers happens once: the first configure
\* sets the input region and asks for the first draw, buffer_drawn is true
\* after it and stays true, and a later configure neither sets the input
\* region nor draws
C38_InitialSetupHappensOnce ==
    /\ ~buffer_drawn
    /\ [][/\ buffer_drawn => buffer_drawn'
          /\ op'.name # "configure" => buffer_drawn' = buffer_drawn
          /\ op'.name = "configure" =>
                /\ buffer_drawn'
                /\ ~buffer_drawn =>
                      /\ last_draw' = Some(0)
                      /\ layer_surface => requests' = <<"set_input_region">>
                /\ buffer_drawn =>
                      /\ requests' = <<>>
                      /\ frames' = <<>>
                      /\ draw_calls' = <<>>
                      /\ last_draw' = last_draw]_vars

\* a configure event after the first, on a surface that is still there, the
\* last draw long enough ago for another
C38_Witness ==
    /\ op.name = "configure"
    /\ layer_surface
    /\ buffer_drawn
    /\ requests = <<>>
    /\ last_draw = Some(DrawIntervalMs)

\* C39: resize(expand) with expand equal to the expansion state changes
\* nothing: expanded, width, height and the area map stay, and no layout pass
\* is run, nothing is asked of the surface and nothing is drawn
C39_ResizeToSameStateIsNoOp ==
    [][op'.name = "resize" /\ op'.expanded[1] = expanded
          => /\ expanded' = expanded
             /\ width' = width
             /\ height' = height
             /\ module_areas' = module_areas
             /\ requests' = <<>>
             /\ frames' = <<>>
             /\ draw_calls' = <<>>
             /\ last_draw' = last_draw]_vars

\* resize was called with the state the notch had, on a configured surface
\* whose last draw was long enough ago for another
C39_Witness ==
    /\ op.name = "resize"
    /\ op.expanded[1] = expanded
    /\ requests = <<>>
    /\ configured
    /\ layer_surface
    /\ last_draw = Some(DrawIntervalMs)

====
